---- MODULE Spec2Model ----
(***************************************************************************)
(* History-based synchronisation of the cargomail repositories (Contact,   *)
(* Blob, Draft): the entity tables, the tombstone tables, the per-user     *)
(* history sequencers, the mutating repository methods and the List and    *)
(* Sync reads.                                                             *)
(***************************************************************************)
EXTENDS Integers, Sequences, FiniteSets, TLC

\* ------------------------------------------------------------------ bounds
\* Number of effective mutating statements in one behaviour.
MaxOps == 3
\* Number of ids one entity table hands out.
MaxIds == 2
\* Number of concurrent write transactions.
MaxReqs == 2

\* ------------------------------------------------------------------ domains
Types == {"Contact", "Blob", "Draft"}
Users == {"U1", "U2"}
Devices == {"D1", "D2"}
\* SQL NULL of a nullable text column (device_id); a nullable timestamp is 0.
NULL == "NULL"
\* A record is created or deleted by a device or on a path without device
\* context.
Callers == Devices \cup {NULL}
\* Values of the domain fields of a record (contact identity, blob content,
\* draft payload).
Doms == {"a", "b"}
Ids == 1..MaxIds
Reqs == 1..MaxReqs

VARIABLES
    rows,      \* rows[t]: the entity table of type t (all users)
    deleted,   \* deleted[t]: the tombstone table of type t
    seq,       \* seq[t][u]: last_history_id of user u in the sequence table
    lastId,    \* lastId[t]: last id handed out in table t
    now,       \* logical clock of the store (CURRENT_TIMESTAMP)
    hlog,      \* hlog[t][u]: committed (historyId, record, device, statement)
               \* stamps; the stamp of an Update carries the values it wrote
    resp,      \* the response of the repository call being answered, or NoResp
    txs        \* txs[q]: what process q holds: the transaction of a request,
               \* the copy of a replica, the Router, the HTTP request served

vars == <<rows, deleted, seq, lastId, now, hlog, resp, txs>>

NoResp == [op |-> "none"]

\* ------------------------------------------------------------ device ids
\* The value the repository hands to the store as device_id: the caller's
\* device id behind a prefix, or NULL without device context.
getPrefixedDeviceId(deviceId) ==
    IF deviceId = NULL THEN NULL ELSE "device:" \o deviceId

\* The device attribution the store keeps for a prefixed device id: the
\* device id behind the prefix.
StoredDeviceId(prefixed) ==
    IF prefixed = NULL THEN NULL
    ELSE CHOOSE d \in Devices : getPrefixedDeviceId(d) = prefixed

\* ------------------------------------------------------------ sequencer
\* A sequencer that stops advancing after its first value.
nextHistoryIdStuck(last) == IF last = 0 THEN 1 ELSE last

\* The history sequencer: the next history id of (t, u) after last.
nextHistoryId(last) == last + 1

\* ------------------------------------------------------------ helpers
Perms(S) ==
    {f \in [1..Cardinality(S) -> S] : \A i, j \in DOMAIN f : f[i] = f[j] => i = j}

Range(s) == {s[i] : i \in DOMAIN s}

\* WHERE user_id = u AND id = id: the one row of the user with that id.
RowOf(table, u, id) == CHOOSE r \in table : r.userId = u /\ r.id = id

\* ORDER BY created_at DESC: every sequence of the rows the store can return,
\* rows with the same created_at in either order.
RECURSIVE OrderByCreatedAtDesc(_)
OrderByCreatedAtDesc(S) ==
    IF S = {} THEN {<<>>}
    ELSE UNION {{<<m>> \o rest : rest \in OrderByCreatedAtDesc(S \ {m})} :
                  m \in {r \in S : \A q \in S : r.createdAt >= q.createdAt}}


\* ------------------------------------------------------------ statements
\* A bulk statement without the user_id condition.
NamedOfAnyUser(table, u, ids) == {r \in table : r.id \in ids}

\* WHERE user_id = $1 AND id IN (SELECT value FROM json_each($2))
Named(table, u, ids) == {r \in table : r.userId = u /\ r.id \in ids}

\* The store's row triggers: every written row is stamped with the next value
\* of the user's history sequence.
StampHistory(r, h) == [r EXCEPT !.historyId = h]

\* One bulk UPDATE ... SET last_stmt = stmt, device_id = dev over the rows
\* listed in ord, the rows its WHERE clause selected, row by row in that order.
RECURSIVE SetStmtAll(_, _, _, _, _, _)
SetStmtAll(table, ord, last, stmt, dev, op) ==
    IF ord = <<>> THEN [table |-> table, last |-> last, stamps |-> <<>>]
    ELSE LET r == Head(ord)
             h == nextHistoryId(last)
             w == StampHistory([r EXCEPT !.lastStmt = stmt, !.deviceId = dev], h)
             rest == SetStmtAll((table \ {r}) \cup {w}, Tail(ord), h, stmt, dev, op)
         IN  [table |-> rest.table, last |-> rest.last,
              stamps |-> <<[h |-> h, id |-> r.id, dev |-> dev, op |-> op]>>
                            \o rest.stamps]

\* One bulk DELETE over the rows listed in ord of a table with a tombstone
\* trigger: each removed row leaves a tombstone stamped with the next history
\* id and no device.
RECURSIVE DeleteAll(_, _, _, _)
DeleteAll(table, tombs, ord, last) ==
    IF ord = <<>> THEN [table |-> table, tombs |-> tombs, last |-> last,
                        stamps |-> <<>>]
    ELSE LET r == Head(ord)
             h == nextHistoryId(last)
             tomb == [id |-> r.id, userId |-> r.userId, historyId |-> h,
                      deviceId |-> NULL]
             rest == DeleteAll(table \ {r},
                               {x \in tombs : ~(x.id = r.id /\ x.userId = r.userId)}
                                  \cup {tomb},
                               Tail(ord), h)
         IN  [table |-> rest.table, tombs |-> rest.tombs, last |-> rest.last,
              stamps |-> <<[h |-> h, id |-> r.id, dev |-> NULL, op |-> "Delete"]>>
                            \o rest.stamps]

\* UPDATE "BlobDeleted" SET "deviceId" = $1 WHERE "userId" = $2 AND "uri" IN (...)
AttributeTombs(tombs, u, deviceId, uris) ==
    {IF x.userId = u /\ x.id \in uris THEN [x EXCEPT !.deviceId = deviceId] ELSE x
       : x \in tombs}

\* Every entity type recording tombstones on Delete.
HasTombstonesAll(t) == TRUE

\* Whether the entity type records tombstones on Delete.
HasTombstones(t) == t = "Blob"

\* A contact table without the UNIQUE constraint.
DuplicateNever(t, table, u, id, dom) == FALSE

\* UNIQUE (email_address, firstname, lastname) of the contact table: another
\* row than the row (u, id) the statement writes holds the identity.
Duplicate(t, table, u, id, dom) ==
    t = "Contact" /\ \E r \in table : ~(r.userId = u /\ r.id = id) /\ r.dom = dom

NotFoundErr(t) ==
    CASE t = "Contact" -> "ErrContactNotFound"
      [] t = "Blob" -> "ErrBlobNotFound"
      [] t = "Draft" -> "ErrDraftNotFound"

Ok(op) == [op |-> op, err |-> "nil"]

Failed(op, err) == [op |-> op, err |-> err]

\* UPDATE ... SET <domain fields> = $1.., device_id = $4 on one row; the update
\* trigger marks the row updated and sets modified_at.
\* An UPDATE that leaves device_id as it was.
UpdateRowKeepDevice(r, dom, dev, time) ==
    [r EXCEPT !.dom = dom, !.lastStmt = 1, !.modifiedAt = time]

UpdateRowKeepDom(r, dom, dev, time) ==
    [r EXCEPT !.deviceId = dev, !.lastStmt = 1, !.modifiedAt = time]

UpdateRow(r, dom, dev, time) ==
    [r EXCEPT !.dom = dom, !.deviceId = dev, !.lastStmt = 1, !.modifiedAt = time]

\* ------------------------------------------------------------ transactions
Idle == [pc |-> "idle"]

\* No lock on the sequence row.
LockFreeAlways(t, u) == TRUE

\* The row of the history sequence of (t, u) is locked by no open transaction.
LockFree(t, u) ==
    \A p \in Reqs : txs[p].pc = "open" => ~(txs[p].type = t /\ txs[p].user = u)

\* The row a transaction writes when it commits with history id h: the new
\* row of a Create, or the updated row of an Update of a row that is not trashed.
TxWrites(x, h, dev) ==
    IF x.op = "Create"
    THEN IF Duplicate(x.type, rows[x.type], x.user, 0, x.dom) \/ lastId[x.type] >= MaxIds
         THEN {}
         ELSE {StampHistory(
                 [id |-> lastId[x.type] + 1, userId |-> x.user, dom |-> x.dom,
                  createdAt |-> now + 1, modifiedAt |-> 0, historyId |-> 0,
                  lastStmt |-> 0, deviceId |-> dev], h)}
    ELSE {StampHistory(UpdateRow(r, x.dom, dev, now + 1), h) :
            r \in {y \in rows[x.type] :
                     /\ y.userId = x.user /\ y.lastStmt # 2
                     /\ ~Duplicate(x.type, rows[x.type], x.user, y.id, x.dom)}}

\* The stamp a committed transaction leaves in the log.
TxStamp(x, h, id, dev) ==
    IF x.op = "Update"
    THEN [h |-> h, id |-> id, dev |-> dev, op |-> x.op, dom |-> x.dom]
    ELSE [h |-> h, id |-> id, dev |-> dev, op |-> x.op]

\* ------------------------------------------------------------ mutations
\* The request a Create or an Update answers; a Create names no id.
Asked(t, u, id, dom) == [type |-> t, user |-> u, id |-> id, dom |-> dom]

\* INSERT INTO contact (user_id, device_id, <domain fields>) VALUES (...): the
\* row as the statement writes it; the store generates the id and the creation
\* time, last_stmt and history_id have their defaults.
InsertRow(id, u, deviceId, dom, time) ==
    [id |-> id, userId |-> u, dom |-> dom, createdAt |-> time, modifiedAt |-> 0,
     historyId |-> 0, lastStmt |-> 0, deviceId |-> deviceId]

\* RETURNING * of the INSERT: the row as the statement wrote it, before the
\* row triggers have run.
ReturningInsert(w) == w

\* The row triggers after the INSERT: the stored row keeps the device
\* attribution and is stamped with the history id h.
AfterInsert(w, h) == StampHistory([w EXCEPT !.deviceId = StoredDeviceId(@)], h)

\* The errors of QueryRowContext(...).Scan(...) that the code does not name
\* (default: return nil, err): a failure of the store, or the deadline of the
\* call (context.WithTimeout(context.Background(), 5*time.Second)).
StoreErrs == {"ErrStorage", "ErrDeadline"}

\* The statement of a Create or an Update fails, or its deadline expires,
\* before it has written (default: return nil, err): nothing is written.
StorageFailure(op, t, u, id, dom) ==
    /\ \E err \in StoreErrs : resp' = Failed(op, err) @@ Asked(t, u, id, dom)
    /\ UNCHANGED <<rows, deleted, seq, lastId, now, hlog>>

\* What Scan yields once the statement has written its row: nil with the row
\* scanned, or an error, when the deadline expires or the store fails between
\* the write and the reading of the returned row.
ScanOutcomes == {"nil"} \cup StoreErrs

\* The answer of a Create or an Update whose statement has written the row:
\* the record scanned, or the error of Scan (return nil, err).  The statement
\* is not part of a transaction, so the row it wrote stays in either case.
Scanned(op, err, rec, asked) ==
    IF err = "nil" THEN Ok(op) @@ [rec |-> rec] @@ asked
    ELSE Failed(op, err) @@ asked

Create(t, u, d, dom) ==
    /\ resp = NoResp
    /\ \/ StorageFailure("Create", t, u, 0, dom)
       \/ IF Duplicate(t, rows[t], u, 0, dom)
          THEN /\ resp' = Failed("Create", "ErrDuplicateContact") @@ Asked(t, u, 0, dom)
               /\ UNCHANGED <<rows, deleted, seq, lastId, now, hlog>>
          ELSE /\ now < MaxOps
               /\ lastId[t] < MaxIds
               /\ LET h == nextHistoryId(seq[t][u])
                      w == InsertRow(lastId[t] + 1, u, getPrefixedDeviceId(d), dom,
                                     now + 1)
                      r == AfterInsert(w, h)
                  IN  /\ rows' = [rows EXCEPT ![t] = @ \cup {r}]
                      /\ seq' = [seq EXCEPT ![t][u] = h]
                      /\ lastId' = [lastId EXCEPT ![t] = @ + 1]
                      /\ now' = now + 1
                      /\ hlog' = [hlog EXCEPT ![t][u] =
                                    Append(@, [h |-> h, id |-> r.id, dev |-> d,
                                               op |-> "Create"])]
                      /\ \E err \in ScanOutcomes :
                            resp' = Scanned("Create", err, ReturningInsert(w),
                                            Asked(t, u, 0, dom))
               /\ UNCHANGED deleted
    /\ UNCHANGED txs

\* An UPDATE that also finds a trashed row.
UpdateWhereAnyStmt(r, u, id) == r.userId = u /\ r.id = id

\* WHERE user_id = $5 AND id = $6 AND last_stmt <> 2
UpdateWhere(r, u, id) == r.userId = u /\ r.id = id /\ r.lastStmt # 2

\* RETURNING * of the UPDATE: the row with the columns the statement set,
\* before the row triggers have run.
ReturningUpdate(r, dom, deviceId) == [r EXCEPT !.dom = dom, !.deviceId = deviceId]

Update(t, u, d, id, dom) ==
    /\ resp = NoResp
    /\ \/ StorageFailure("Update", t, u, id, dom)
       \/ LET hit == {r \in rows[t] : UpdateWhere(r, u, id)}
          IN  IF hit = {}
              THEN /\ resp' = Failed("Update", NotFoundErr(t)) @@ Asked(t, u, id, dom)
                   /\ UNCHANGED <<rows, deleted, seq, lastId, now, hlog>>
              ELSE IF Duplicate(t, rows[t], u, id, dom)
              THEN /\ resp' = Failed("Update", "ErrDuplicateContact") @@ Asked(t, u, id, dom)
                   /\ UNCHANGED <<rows, deleted, seq, lastId, now, hlog>>
              ELSE /\ now < MaxOps
                   /\ LET r == RowOf(hit, u, id)
                          h == nextHistoryId(seq[t][u])
                          w == StampHistory(
                                 UpdateRow(r, dom, StoredDeviceId(getPrefixedDeviceId(d)),
                                           now + 1), h)
                      IN  /\ rows' = [rows EXCEPT ![t] = (@ \ {r}) \cup {w}]
                          /\ seq' = [seq EXCEPT ![t][u] = h]
                          /\ now' = now + 1
                          /\ hlog' = [hlog EXCEPT ![t][u] =
                                        Append(@, [h |-> h, id |-> id, dev |-> d,
                                                   op |-> "Update", dom |-> dom])]
                          /\ \E err \in ScanOutcomes :
                                resp' = Scanned("Update", err,
                                                ReturningUpdate(r, dom, getPrefixedDeviceId(d)),
                                                Asked(t, u, id, dom))
                   /\ UNCHANGED <<deleted, lastId>>
    /\ UNCHANGED txs

\* The shared shape of Trash and Untrash: one UPDATE statement.
\* The request a Trash, an Untrash or a Delete answers.
AskedAll(t, u, ids) == [type |-> t, user |-> u, ids |-> ids]

SetStmt(op, stmt, t, u, d, ids) ==
    /\ resp = NoResp
    /\ LET hit == Named(rows[t], u, ids)
       IN  /\ hit = {} \/ now < MaxOps
           /\ \E ord \in Perms(hit) :
                LET res == SetStmtAll(rows[t], ord, seq[t][u], stmt,
                                      StoredDeviceId(getPrefixedDeviceId(d)), op)
                IN  /\ rows' = [rows EXCEPT ![t] = res.table]
                    /\ seq' = [seq EXCEPT ![t][u] = res.last]
                    /\ hlog' = [hlog EXCEPT ![t][u] = @ \o res.stamps]
           /\ now' = IF hit = {} THEN now ELSE now + 1
    /\ resp' = Ok(op) @@ AskedAll(t, u, ids)
    /\ UNCHANGED <<deleted, lastId, txs>>

Trash(t, u, d, ids) == SetStmt("Trash", 2, t, u, d, ids)

\* An Untrash that leaves the named rows trashed.
UntrashKeepsStmt(t, u, d, ids) == SetStmt("Untrash", 2, t, u, d, ids)

Untrash(t, u, d, ids) == SetStmt("Untrash", 0, t, u, d, ids)

\* Contact and Draft: one DELETE statement.  Blob: a transaction of the DELETE
\* statement and the UPDATE that attributes the tombstones to the caller's
\* device.
Delete(t, u, d, ids) ==
    /\ resp = NoResp
    /\ LET hit == Named(rows[t], u, ids)
       IN  /\ hit = {} \/ now < MaxOps
           /\ IF HasTombstones(t)
              THEN \E ord \in Perms(hit) :
                     LET res == DeleteAll(rows[t], deleted[t], ord, seq[t][u])
                     IN  /\ rows' = [rows EXCEPT ![t] = res.table]
                         /\ deleted' = [deleted EXCEPT ![t] =
                                          AttributeTombs(res.tombs, u, d, ids)]
                         /\ seq' = [seq EXCEPT ![t][u] = res.last]
                         /\ hlog' = [hlog EXCEPT ![t][u] =
                               @ \o [i \in DOMAIN res.stamps |->
                                       [res.stamps[i] EXCEPT !.dev = d]]]
              ELSE /\ rows' = [rows EXCEPT ![t] = @ \ hit]
                   /\ UNCHANGED <<deleted, seq, hlog>>
           /\ now' = IF hit = {} THEN now ELSE now + 1
    /\ resp' = Ok("Delete") @@ AskedAll(t, u, ids)
    /\ UNCHANGED <<lastId, txs>>

\* ------------------------------------------------------------ reads
\* A filter that echoes every row back to every caller.
DeviceFilterEcho(deviceId, device) == TRUE

\* device_id <> $2 alone: a null device_id never passes.
DeviceFilterNotNull(deviceId, device) ==
    deviceId # NULL /\ device # NULL /\ deviceId # device

\* (device_id <> $2 OR device_id IS NULL), in SQL's three-valued logic.
DeviceFilter(deviceId, device) ==
    \/ deviceId # NULL /\ device # NULL /\ deviceId # device
    \/ deviceId = NULL

\* history_id >= $3
AfterGe(historyId, since) == historyId >= since

\* history_id > $3
After(historyId, since) == historyId > since

\* A WHERE clause without the last_stmt test.
SyncWhereAnyStmt(r, u, device, since, stmt) ==
    /\ r.userId = u
    /\ DeviceFilter(r.deviceId, device)
    /\ After(r.historyId, since)

\* The WHERE clause of the inserted / updated / trashed queries of Sync.
SyncWhere(r, u, device, since, stmt) ==
    /\ r.userId = u
    /\ r.lastStmt = stmt
    /\ DeviceFilter(r.deviceId, device)
    /\ After(r.historyId, since)

\* A deleted query without the device filter.
SyncDeletedWhereEcho(x, u, device, since) ==
    x.userId = u /\ After(x.historyId, since)

\* A deleted query that returns every tombstone of the user.
SyncDeletedWhereAll(x, u, device, since) == x.userId = u

\* The WHERE clause of the deleted query of Sync.
SyncDeletedWhere(x, u, device, since) ==
    /\ x.userId = u
    /\ DeviceFilter(x.deviceId, device)
    /\ After(x.historyId, since)

\* One history sequence of the user for all entity types.
LastHistoryIdOfAnyType(t, u) ==
    CHOOSE h \in {seq[o][u] : o \in Types} : \A o \in Types : seq[o][u] <= h

\* The largest history id among the user's stored rows.
LastHistoryIdOfRows(t, u) ==
    LET hs == {r.historyId : r \in {x \in rows[t] : x.userId = u}} \cup {0}
    IN  CHOOSE h \in hs : \A k \in hs : k <= h

\* SELECT last_history_id FROM <t>_history_seq WHERE user_id = $1
LastHistoryId(t, u) == seq[t][u]

\* WHERE user_id = $1 AND last_stmt < 2
\* A List query without the last_stmt condition.
ListWhereAnyStmt(r, u) == r.userId = u

ListWhere(r, u) == r.userId = u /\ r.lastStmt < 2

\* No List query with an ORDER BY.
ListOrderedNever(t) == FALSE

\* Blob List has no ORDER BY.
ListOrdered(t) == t # "Blob"

List(t, u) ==
    /\ resp = NoResp
    /\ LET live == {r \in rows[t] : ListWhere(r, u)}
       IN  \E items \in (IF ListOrdered(t) THEN OrderByCreatedAtDesc(live)
                         ELSE Perms(live)) :
             resp' = [op |-> "List", type |-> t, user |-> u, err |-> "nil",
                      history |-> LastHistoryId(t, u), items |-> items]
    /\ UNCHANGED <<rows, deleted, seq, lastId, now, hlog, txs>>

\* The client that holds the response of a Sync calls Sync again with the
\* history id it sent before.
Repeats(t, u, device, since) ==
    /\ resp.op = "Sync"
    /\ ~resp.again
    /\ resp.type = t /\ resp.user = u /\ resp.device = device
    /\ since = resp.since

\* A Sync is called on its own, or by the client that holds the response of a
\* List or Sync of the same user and type: with the history id it sent before,
\* with the high-water-mark it was just given, or from the start after a List.
Follows(t, u, device, since) ==
    \/ resp = NoResp
    \/ Repeats(t, u, device, since)
    \/ /\ resp.op = "Sync"
       /\ resp.type = t /\ resp.user = u /\ resp.device = device
       /\ since = resp.history
    \/ /\ resp.op = "List"
       /\ resp.type = t /\ resp.user = u
       /\ since = 0

Sync(t, u, device, since) ==
    /\ Follows(t, u, device, since)
    /\ \E ins \in OrderByCreatedAtDesc(
                      {r \in rows[t] : SyncWhere(r, u, device, since, 0)}),
          upd \in OrderByCreatedAtDesc(
                      {r \in rows[t] : SyncWhere(r, u, device, since, 1)}),
          tra \in OrderByCreatedAtDesc(
                      {r \in rows[t] : SyncWhere(r, u, device, since, 2)}),
          del \in Perms({x \in deleted[t] : SyncDeletedWhere(x, u, device, since)}) :
         resp' = [op |-> "Sync", type |-> t, user |-> u, device |-> device,
                  since |-> since, err |-> "nil",
                  listed |-> resp.op = "List",
                  again |-> Repeats(t, u, device, since),
                  inserted |-> ins,
                  updated |-> upd,
                  trashed |-> tra,
                  deleted |-> del,
                  history |-> LastHistoryId(t, u)]
    /\ UNCHANGED <<rows, deleted, seq, lastId, now, hlog, txs>>

\* The zero value of the Blob struct.
ZeroBlob ==
    [id |-> 0, userId |-> "", dom |-> "", createdAt |-> 0, modifiedAt |-> 0,
     historyId |-> 0, lastStmt |-> 0, deviceId |-> NULL]

\* A point lookup that also finds a trashed row.
GetBlobByUriWhereAnyStmt(r, u, uri) == r.userId = u /\ r.id = uri

\* WHERE "userId" = $1 AND "uri" = $2 AND "lastStmt" < 2
GetBlobByUriWhere(r, u, uri) == r.userId = u /\ r.id = uri /\ r.lastStmt < 2

\* The point lookup of a Blob: the row, the zero Blob when no row matches, the
\* zero Blob and the error when the query fails.
GetBlobByUri(u, uri, fails) ==
    /\ resp = NoResp
    /\ LET hit == {r \in rows["Blob"] : GetBlobByUriWhere(r, u, uri)}
       IN  resp' = [op |-> "GetBlobByUri", type |-> "Blob", user |-> u,
                    uri |-> uri,
                    err |-> IF fails THEN "ErrStorage" ELSE "nil",
                    blob |-> IF fails \/ hit = {} THEN ZeroBlob
                             ELSE CHOOSE r \in hit : TRUE]
    /\ UNCHANGED <<rows, deleted, seq, lastId, now, hlog, txs>>

\* The response is written to the client and the request ends.
Respond ==
    /\ resp # NoResp
    /\ resp' = NoResp
    /\ UNCHANGED <<rows, deleted, seq, lastId, now, hlog, txs>>

\* ------------------------------------------------------------ specification
\* The history ids a client of (t, u) may hold: 0 or a high-water-mark it was
\* given, which is at most the current one.
Sinces(t, u) == 0..seq[t][u]

\* The entity types the user has a history of: the reads are those of a client
\* of a sequence that has handed out an id.
Sequenced(u) == {t \in Types : seq[t][u] > 0}

Init ==
    /\ rows = [t \in Types |-> {}]
    /\ deleted = [t \in Types |-> {}]
    /\ seq = [t \in Types |-> [u \in Users |-> 0]]
    /\ lastId = [t \in Types |-> 0]
    /\ now = 0
    /\ hlog = [t \in Types |-> [u \in Users |-> <<>>]]
    /\ resp = NoResp
    /\ txs = [q \in Reqs |-> Idle]

\* The requests of the users in US on the entity types in TS, by the callers in CS (Create, Delete) and the
\* devices in DS.
NextIn(US, TS, CS, DS) ==
    \/ \E t \in TS, u \in US, d \in CS, dom \in Doms : Create(t, u, d, dom)
    \/ \E t \in TS, u \in US, d \in DS, id \in Ids, dom \in Doms :
         Update(t, u, d, id, dom)
    \/ \E t \in TS, u \in US, d \in DS, ids \in SUBSET Ids : Trash(t, u, d, ids)
    \/ \E t \in TS, u \in US, d \in DS, ids \in SUBSET Ids : Untrash(t, u, d, ids)
    \/ \E t \in TS, u \in US, d \in CS, ids \in SUBSET Ids : Delete(t, u, d, ids)
    \/ \E u \in US : \E t \in Sequenced(u) \cap TS : List(t, u)
    \/ \E u \in US, d \in DS : \E t \in Sequenced(u) \cap TS :
         \E since \in Sinces(t, u) : Sync(t, u, d, since)
    \/ Respond

\* The requests of the users in US, on every entity type, by every caller.
NextOf(US) == NextIn(US, Types, Callers, Devices)

\* Requests served one after the other.
Next == NextOf({"U1"})

Spec == Init /\ [][Next]_vars

\* ------------------------------------------------------------ two users
\* The requests of two users on the Contact and Blob repositories, the point
\* lookup of a Blob included; the lookup ends in a storage failure or not.
NextUsers ==
    \/ NextIn(Users, {"Contact", "Blob"}, {"D1"}, {"D1"})
    \/ \E u \in Users, uri \in Ids, fails \in BOOLEAN : GetBlobByUri(u, uri, fails)

SpecUsers == Init /\ [][NextUsers]_vars

\* ------------------------------------------------------------ blob uris
\* The Blob repository with the uri of a blob taken from the content it is
\* created with, so that a blob that was deleted can be created again under
\* the uri it had.

\* The content address of a blob.
UriOf(dom) == CASE dom = "a" -> 1 [] dom = "b" -> 2

\* Create of a Blob whose uri is the address of the content it is created
\* with: the INSERT fails when a row with that uri is stored.  Create runs the
\* one INSERT INTO "Blob" and no statement on "BlobDeleted".
CreateBlob(u, d, dom) ==
    /\ resp = NoResp
    /\ \/ StorageFailure("Create", "Blob", u, 0, dom)
       \/ IF \E r \in rows["Blob"] : r.id = UriOf(dom)
          THEN StorageFailure("Create", "Blob", u, 0, dom)
          ELSE /\ now < MaxOps
               /\ LET h == nextHistoryId(seq["Blob"][u])
                      w == InsertRow(UriOf(dom), u, getPrefixedDeviceId(d), dom,
                                     now + 1)
                      r == AfterInsert(w, h)
                  IN  /\ rows' = [rows EXCEPT !["Blob"] = @ \cup {r}]
                      /\ seq' = [seq EXCEPT !["Blob"][u] = h]
                      /\ now' = now + 1
                      /\ hlog' = [hlog EXCEPT !["Blob"][u] =
                                    Append(@, [h |-> h, id |-> r.id, dev |-> d,
                                               op |-> "Create"])]
                      /\ \E err \in ScanOutcomes :
                            resp' = Scanned("Create", err, ReturningInsert(w),
                                            Asked("Blob", u, 0, dom))
               /\ UNCHANGED <<deleted, lastId>>
    /\ UNCHANGED txs

\* The requests of one user on the Blob repository.
NextUri ==
    \/ \E d \in Devices, dom \in Doms : CreateBlob("U1", d, dom)
    \/ \E d \in Devices, id \in Ids, dom \in Doms : Update("Blob", "U1", d, id, dom)
    \/ \E d \in Devices, ids \in SUBSET Ids : Trash("Blob", "U1", d, ids)
    \/ \E d \in Devices, ids \in SUBSET Ids : Untrash("Blob", "U1", d, ids)
    \/ \E d \in Devices, ids \in SUBSET Ids : Delete("Blob", "U1", d, ids)
    \/ "Blob" \in Sequenced("U1") /\ List("Blob", "U1")
    \/ \E d \in Devices :
         "Blob" \in Sequenced("U1") /\ \E since \in Sinces("Blob", "U1") :
             Sync("Blob", "U1", d, since)
    \/ Respond

SpecUri == Init /\ [][NextUri]_vars

\* ------------------------------------------------------------ replica
\* A device that keeps a local copy of the records of one entity type of its
\* user: it fills the copy from List, applies its own mutations to it when the
\* repository has served them, and applies the result of every Sync, which it
\* calls with the high-water-mark it was given last.  A second device mutates
\* the same records.  txs[q] holds the copy of the device; its field syncs
\* flips with every Sync result applied.

\* What the copy keeps of a record.
Local(r) == [id |-> r.id, dom |-> r.dom]

\* The copy holds no request that waits for its response.
NoPending(q) == txs[q].pc = "replica" => txs[q].pending = NoResp

\* The ids of the records or tombstones of a bucket.
BucketKeys(bucket) == {bucket[i].id : i \in DOMAIN bucket}

\* The local records without those of the ids.
Without(S, ids) == {x \in S : x.id \notin ids}

\* The local records with those of the bucket put in place of their old
\* versions.
WithBucket(S, bucket) ==
    Without(S, BucketKeys(bucket)) \cup {Local(bucket[i]) : i \in DOMAIN bucket}

\* The copy after the result of a Sync: inserted and updated records are live,
\* trashed ones are trashed, deleted ones are gone.
ApplySync(c, res) ==
    LET gone == BucketKeys(res.deleted)
        live == WithBucket(WithBucket(c.live, res.inserted), res.updated)
    IN  [c EXCEPT
           !.live = Without(live, BucketKeys(res.trashed) \cup gone),
           !.trashed = Without(WithBucket(
                                 Without(@, BucketKeys(res.inserted) \cup BucketKeys(res.updated)),
                                 res.trashed), gone),
           !.hwm = res.history,
           !.syncs = 1 - @]

\* The copy after a mutation of its own device that the repository answered
\* with r: nothing changes when the call failed.
ApplyOwn(c, r) ==
    IF r.err # "nil" THEN [c EXCEPT !.pending = NoResp]
    ELSE [c EXCEPT
            !.pending = NoResp,
            !.live =
                CASE r.op \in {"Create", "Update"} ->
                       Without(@, {r.rec.id}) \cup {Local(r.rec)}
                  [] r.op \in {"Trash", "Delete"} -> Without(@, r.ids)
                  [] r.op = "Untrash" -> @ \cup {x \in c.trashed : x.id \in r.ids},
            !.trashed =
                CASE r.op \in {"Create", "Update"} -> @
                  [] r.op = "Trash" -> @ \cup {x \in c.live : x.id \in r.ids}
                  [] r.op \in {"Untrash", "Delete"} -> Without(@, r.ids)]

\* The requests the device makes of the records it holds.
Requests(c) ==
    LET live == {x.id : x \in c.live}
        trashed == {x.id : x \in c.trashed}
    IN  {[op |-> "Create", dom |-> dom] : dom \in Doms}
          \cup {[op |-> "Update", id |-> id, dom |-> dom] : id \in live, dom \in Doms}
          \cup {[op |-> "Trash", ids |-> ids] : ids \in SUBSET live \ {{}}}
          \cup {[op |-> "Untrash", ids |-> ids] : ids \in SUBSET trashed \ {{}}}
          \cup {[op |-> "Delete", ids |-> ids] :
                   ids \in SUBSET (live \cup trashed) \ {{}}}

\* The device fills its copy from a List.
ReplicaList(q, t, u, device) ==
    /\ txs[q].pc = "idle"
    /\ resp = NoResp
    /\ t \in Sequenced(u)
    /\ txs' = [txs EXCEPT ![q] =
                 [pc |-> "replica", type |-> t, user |-> u, device |-> device,
                  live |-> {Local(r) : r \in {x \in rows[t] : ListWhere(x, u)}},
                  trashed |-> {},
                  hwm |-> LastHistoryId(t, u),
                  syncs |-> 0,
                  pending |-> NoResp]]
    /\ UNCHANGED <<rows, deleted, seq, lastId, now, hlog, resp>>

\* The device calls Sync with the high-water-mark it holds and applies the
\* result.
ReplicaSync(q) ==
    /\ txs[q].pc = "replica"
    /\ txs[q].pending = NoResp
    /\ resp = NoResp
    /\ LET c == txs[q]
           bucket(stmt) ==
               OrderByCreatedAtDesc(
                   {r \in rows[c.type] : SyncWhere(r, c.user, c.device, c.hwm, stmt)})
       IN  \E ins \in bucket(0), upd \in bucket(1), tra \in bucket(2),
              del \in Perms({x \in deleted[c.type] :
                                SyncDeletedWhere(x, c.user, c.device, c.hwm)}) :
             txs' = [txs EXCEPT ![q] =
                       ApplySync(c, [inserted |-> ins, updated |-> upd,
                                     trashed |-> tra, deleted |-> del,
                                     history |-> LastHistoryId(c.type, c.user)])]
    /\ UNCHANGED <<rows, deleted, seq, lastId, now, hlog, resp>>

\* The device decides on a mutation.
ReplicaIssue(q) ==
    /\ txs[q].pc = "replica"
    /\ txs[q].pending = NoResp
    /\ resp = NoResp
    /\ \E req \in Requests(txs[q]) : txs' = [txs EXCEPT ![q].pending = req]
    /\ UNCHANGED <<rows, deleted, seq, lastId, now, hlog, resp>>

\* The repository serves the mutation of the device.
ReplicaCall(q) ==
    /\ txs[q].pc = "replica"
    /\ txs[q].pending # NoResp
    /\ LET c == txs[q]
           req == c.pending
       IN  CASE req.op = "Create" -> Create(c.type, c.user, c.device, req.dom)
             [] req.op = "Update" -> Update(c.type, c.user, c.device, req.id, req.dom)
             [] req.op = "Trash" -> Trash(c.type, c.user, c.device, req.ids)
             [] req.op = "Untrash" -> Untrash(c.type, c.user, c.device, req.ids)
             [] req.op = "Delete" -> Delete(c.type, c.user, c.device, req.ids)

\* The device has the response and applies the mutation to its copy.
ReplicaApply(q) ==
    /\ txs[q].pc = "replica"
    /\ txs[q].pending # NoResp
    /\ resp # NoResp
    /\ txs' = [txs EXCEPT ![q] = ApplyOwn(@, resp)]
    /\ resp' = NoResp
    /\ UNCHANGED <<rows, deleted, seq, lastId, now, hlog>>

\* Device D1 keeps a copy of the Contacts or of the Blobs of user U1 while
\* device D2 mutates them.
NextReplica ==
    \/ \E t \in {"Contact", "Blob"} : ReplicaList(1, t, "U1", "D1")
    \/ ReplicaSync(1)
    \/ ReplicaIssue(1)
    \/ ReplicaCall(1)
    \/ ReplicaApply(1)
    \/ NoPending(1) /\ NextIn({"U1"}, {"Contact", "Blob"}, {"D2"}, {"D2"})

SpecReplica == Init /\ [][NextReplica]_vars

\* ------------------------------------------------------------ failing writes
\* Trash, Untrash and Delete taken statement by statement and row by row, so
\* that a storage failure or the deadline of the call can strike at any point.
\* The store serves one writer at a time.  A statement works on the rows it
\* names one after the other, the row triggers stamping each; what it wrote
\* becomes part of the store when its transaction commits: at the end of the
\* statement for Trash, Untrash and the Delete of a Contact or Draft, at
\* tx.Commit for the Delete of a Blob, which runs the DELETE and the UPDATE of
\* the tombstones in one transaction.

\* The part of the store one request on (t, u) works on.
View(t, u) ==
    [rows |-> rows[t], deleted |-> deleted[t], seq |-> seq[t][u], hlog |-> hlog[t][u]]

\* No request has a transaction open.
Quiet == \A q \in Reqs : txs[q].pc = "idle"

\* A rollback that keeps what the transaction wrote.
RollbackNot(x) == x.work

\* defer tx.Rollback(): the store is as it was when the transaction began.
Rollback(x) == x.before

\* A statement that fails or is interrupted by the deadline writes nothing.
Interrupted(x) == x.before

\* What the store holds after the request gives up: Blob Delete rolls its
\* transaction back, the other requests are one statement.
Undone(x) ==
    IF x.op = "Delete" /\ HasTombstones(x.type) THEN Rollback(x) ELSE Interrupted(x)

\* The request begins: BeginTx for the Delete of a Blob, then the first
\* statement starts on the rows it names.
OpBegin(q, op, t, u, d, ids) ==
    /\ resp = NoResp
    /\ Quiet
    /\ now < MaxOps
    /\ txs' = [txs EXCEPT ![q] =
                 [pc |-> "statement", op |-> op, type |-> t, user |-> u,
                  dev |-> d, ids |-> ids,
                  todo |-> Named(rows[t], u, ids),
                  before |-> View(t, u), work |-> View(t, u)]]
    /\ UNCHANGED <<rows, deleted, seq, lastId, now, hlog, resp>>

\* The statement writes one more of the rows it names.
OpRow(q) ==
    /\ txs[q].pc = "statement"
    /\ \E r \in txs[q].todo :
         LET x == txs[q]
             w == x.work
             dev == StoredDeviceId(getPrefixedDeviceId(x.dev))
             res == IF x.op = "Delete"
                    THEN IF HasTombstones(x.type)
                         THEN DeleteAll(w.rows, w.deleted, <<r>>, w.seq)
                         ELSE [table |-> w.rows \ {r},
                               tombs |-> w.deleted, last |-> w.seq, stamps |-> <<>>]
                    ELSE [tombs |-> w.deleted] @@
                         SetStmtAll(w.rows, <<r>>, w.seq,
                                    IF x.op = "Trash" THEN 2 ELSE 0, dev, x.op)
         IN  txs' = [txs EXCEPT ![q].todo = @ \ {r},
                                ![q].work =
                                   [rows |-> res.table, deleted |-> res.tombs,
                                    seq |-> res.last,
                                    hlog |-> w.hlog \o
                                       [i \in DOMAIN res.stamps |->
                                          [res.stamps[i] EXCEPT !.dev = x.dev]]]]
    /\ UNCHANGED <<rows, deleted, seq, lastId, now, hlog, resp>>

\* The DELETE of a Blob transaction is through: the UPDATE attributes the
\* tombstones of the uris named to the caller's device.
OpAttribute(q) ==
    /\ txs[q].pc = "statement"
    /\ txs[q].todo = {}
    /\ txs[q].op = "Delete" /\ HasTombstones(txs[q].type)
    /\ txs' = [txs EXCEPT ![q].pc = "commit",
                           ![q].work.deleted =
                              AttributeTombs(@, txs[q].user, txs[q].dev, txs[q].ids)]
    /\ UNCHANGED <<rows, deleted, seq, lastId, now, hlog, resp>>

\* The store takes over the view v of (t, u).
Install(t, u, v) ==
    /\ rows' = [rows EXCEPT ![t] = v.rows]
    /\ deleted' = [deleted EXCEPT ![t] = v.deleted]
    /\ seq' = [seq EXCEPT ![t][u] = v.seq]
    /\ hlog' = [hlog EXCEPT ![t][u] = v.hlog]
    /\ now' = IF v.rows = rows[t] THEN now ELSE now + 1

\* The transaction commits and the request returns nil: the single statement
\* when it is through, the Blob transaction at tx.Commit.
OpCommit(q) ==
    /\ LET x == txs[q]
       IN  /\ \/ x.pc = "commit"
               \/ /\ x.pc = "statement" /\ x.todo = {}
                  /\ ~(x.op = "Delete" /\ HasTombstones(x.type))
           /\ Install(x.type, x.user, x.work)
           /\ resp' = Ok(x.op) @@ AskedAll(x.type, x.user, x.ids)
    /\ txs' = [txs EXCEPT ![q] = Idle]
    /\ UNCHANGED lastId

\* A statement or the commit fails, or the deadline of the call expires: the
\* request returns the error; dirty tells whether it had written rows.
OpAbort(q, err) ==
    /\ LET x == txs[q]
       IN  /\ x.pc \in {"statement", "commit"}
           /\ Install(x.type, x.user, Undone(x))
           /\ resp' = Failed(x.op, err) @@ AskedAll(x.type, x.user, x.ids)
                        @@ [dirty |-> x.work # x.before]
    /\ txs' = [txs EXCEPT ![q] = Idle]
    /\ UNCHANGED lastId

\* One user creating and updating records, and trashing, untrashing and
\* deleting them with requests that can fail.
NextFail ==
    \/ \E t \in Types, d \in Callers, dom \in Doms : Quiet /\ Create(t, "U1", d, dom)
    \/ \E t \in Types, d \in Devices, id \in Ids, dom \in Doms :
         Quiet /\ Update(t, "U1", d, id, dom)
    \/ \E op \in {"Trash", "Untrash", "Delete"}, t \in Types, d \in Devices,
           ids \in SUBSET Ids : OpBegin(1, op, t, "U1", d, ids)
    \/ OpRow(1)
    \/ OpAttribute(1)
    \/ OpCommit(1)
    \/ \E err \in StoreErrs : OpAbort(1, err)
    \/ Respond

SpecFail == Init /\ [][NextFail]_vars

\* ------------------------------------------------------------ reads in steps
\* List and Sync taken query by query, with requests that mutate the store
\* served in between and with a storage failure or the deadline possible at
\* every query.  Both run their queries in one transaction, which reads the
\* store as it was at its first query.

\* The nil result a failed read returns.
Nil == [nil |-> TRUE]

\* The queries of a read, in their order, and the commit.
Queries(op) ==
    IF op = "Sync" THEN <<"inserted", "updated", "trashed", "deleted", "history", "commit">>
    ELSE <<"items", "history", "commit">>

\* The result object before its first query: empty lists, History zero.
EmptyResult(op) ==
    IF op = "Sync"
    THEN [inserted |-> <<>>, updated |-> <<>>, trashed |-> <<>>, deleted |-> <<>>,
          history |-> 0]
    ELSE [items |-> <<>>, history |-> 0]

\* Queries that read the store as it is when they run.
ReadViewLive(x) == View(x.type, x.user)

\* The store as the query at x.pc sees it: as it is for the first query of the
\* transaction, and as the first query saw it for the others.
ReadView(x) ==
    IF x.pc = Queries(x.op)[1] THEN View(x.type, x.user) ELSE x.snap

\* A SELECT that advances the history sequence.
SelectBumps(v) == [v EXCEPT !.seq = @ + 1]

\* What a SELECT leaves of the tables it reads.
Select(v) == v

\* A failed read that returns the result object as far as it was filled.
ReturnPartial(x) == x.res

\* return nil, err
ReturnNil(x) == Nil

\* The rows or the value the query at x.pc returns, in each order the store
\* can return them.
Answers(x) ==
    LET v == ReadView(x)
        t == x.type
        u == x.user
        bucket(stmt) ==
            OrderByCreatedAtDesc(
                {r \in v.rows : SyncWhere(r, u, x.device, x.since, stmt)})
    IN  CASE x.pc = "inserted" -> bucket(0)
          [] x.pc = "updated" -> bucket(1)
          [] x.pc = "trashed" -> bucket(2)
          [] x.pc = "deleted" ->
               Perms({d \in v.deleted : SyncDeletedWhere(d, u, x.device, x.since)})
          [] x.pc = "items" ->
               LET live == {r \in v.rows : ListWhere(r, u)}
               IN  IF ListOrdered(t) THEN OrderByCreatedAtDesc(live) ELSE Perms(live)
          [] x.pc = "history" -> {v.seq}

\* The step after pc in the read op.
NextQuery(op, pc) ==
    LET qs == Queries(op)
        i == CHOOSE k \in DOMAIN qs : qs[k] = pc
    IN  qs[i + 1]

\* BeginTx of a List (since 0, no device) or of a Sync; the transaction has
\* read nothing yet.
ReadBegin(q, op, t, u, device, since) ==
    /\ txs[q].pc = "idle"
    /\ txs' = [txs EXCEPT ![q] =
                 [pc |-> Queries(op)[1], op |-> op, type |-> t, user |-> u,
                  device |-> device, since |-> since, snap |-> Nil,
                  res |-> EmptyResult(op), err |-> "nil", moved |-> FALSE]]
    /\ UNCHANGED <<rows, deleted, seq, lastId, now, hlog, resp>>

\* The next query of the read runs and its rows are scanned into the result;
\* moved tells whether the store has changed since the transaction began.
ReadQuery(q) ==
    /\ txs[q].pc \in {"inserted", "updated", "trashed", "deleted", "items", "history"}
    /\ LET x == txs[q]
           after == Select(View(x.type, x.user))
       IN  /\ \E a \in Answers(x) :
                 txs' = [txs EXCEPT ![q].res = [@ EXCEPT ![x.pc] = a],
                                    ![q].pc = NextQuery(x.op, x.pc),
                                    ![q].snap = ReadView(x),
                                    ![q].moved = @ \/ View(x.type, x.user) # ReadView(x)]
           /\ rows' = [rows EXCEPT ![x.type] = after.rows]
           /\ deleted' = [deleted EXCEPT ![x.type] = after.deleted]
           /\ seq' = [seq EXCEPT ![x.type][x.user] = after.seq]
           /\ hlog' = [hlog EXCEPT ![x.type][x.user] = after.hlog]
    /\ UNCHANGED <<lastId, now, resp>>

\* tx.Commit() and return of the result.
ReadCommit(q) ==
    /\ txs[q].pc = "commit"
    /\ txs' = [txs EXCEPT ![q].pc = "done"]
    /\ UNCHANGED <<rows, deleted, seq, lastId, now, hlog, resp>>

\* A query or the commit fails, or the deadline expires: the read returns the
\* error; at is the step that failed.
ReadAbort(q, err) ==
    /\ txs[q].pc \in {"inserted", "updated", "trashed", "deleted", "items",
                    "history", "commit"}
    /\ txs' = [txs EXCEPT ![q] =
                 [pc |-> "failed", op |-> @.op, type |-> @.type, user |-> @.user,
                  device |-> @.device, since |-> @.since, err |-> err,
                  res |-> ReturnNil(@), at |-> @.pc]]
    /\ UNCHANGED <<rows, deleted, seq, lastId, now, hlog, resp>>

\* The client has the answer of its read.
ReadReturn(q) ==
    /\ txs[q].pc \in {"done", "failed"}
    /\ txs' = [txs EXCEPT ![q] = Idle]
    /\ UNCHANGED <<rows, deleted, seq, lastId, now, hlog, resp>>

\* One device mutating Contacts and Blobs while another reads them.
NextReads ==
    \/ \E t \in {"Contact", "Blob"}, dom \in Doms : Create(t, "U1", "D1", dom)
    \/ \E t \in {"Contact", "Blob"}, id \in Ids, dom \in Doms :
         Update(t, "U1", "D1", id, dom)
    \/ \E t \in {"Contact", "Blob"}, ids \in SUBSET Ids : Trash(t, "U1", "D1", ids)
    \/ \E t \in {"Contact", "Blob"}, ids \in SUBSET Ids : Untrash(t, "U1", "D1", ids)
    \/ \E t \in {"Contact", "Blob"}, ids \in SUBSET Ids : Delete(t, "U1", "D1", ids)
    \/ Respond
    \/ \E t \in Sequenced("U1") : ReadBegin(1, "List", t, "U1", NULL, 0)
    \/ \E t \in Sequenced("U1") : \E since \in Sinces(t, "U1") :
         ReadBegin(1, "Sync", t, "U1", "D2", since)
    \/ ReadQuery(1)
    \/ ReadCommit(1)
    \/ ReadAbort(1, "ErrStorage")
    \/ ReadReturn(1)

SpecReads == Init /\ [][NextReads]_vars

\* ------------------------------------------------------------ concurrent writers
\* Requests that run their write transactions concurrently.  Each single-row
\* write runs in a transaction of its own: it waits for the row of the history
\* sequence of its user and entity type, reads it under the lock, and writes
\* the record and the advanced sequence when it commits; a transaction that
\* fails or runs into its deadline is rolled back and writes nothing.
TxArrive(q, t, u, d, op, dom) ==
    /\ txs[q].pc = "idle"
    /\ txs' = [txs EXCEPT ![q] =
                 [pc |-> "waiting", type |-> t, user |-> u, dev |-> d, op |-> op,
                  dom |-> dom,
                  conc |-> \E p \in Reqs \ {q} :
                             /\ txs[p].pc \in {"waiting", "open"}
                             /\ txs[p].type = t /\ txs[p].user = u]]
    /\ UNCHANGED <<rows, deleted, seq, lastId, now, hlog, resp>>

TxBegin(q) ==
    /\ txs[q].pc = "waiting"
    /\ LockFree(txs[q].type, txs[q].user)
    /\ txs' = [txs EXCEPT ![q] =
                 [pc |-> "open", last |-> seq[txs[q].type][txs[q].user]] @@ @]
    /\ UNCHANGED <<rows, deleted, seq, lastId, now, hlog, resp>>

TxCommit(q) ==
    /\ txs[q].pc = "open"
    /\ now < MaxOps
    /\ LET x == txs[q]
           t == x.type
           u == x.user
           h == nextHistoryId(x.last)
           dev == StoredDeviceId(getPrefixedDeviceId(x.dev))
       IN  /\ \E w \in TxWrites(x, h, dev) :
                 /\ rows' = [rows EXCEPT ![t] =
                                  {r \in @ : ~(r.userId = w.userId /\ r.id = w.id)}
                                      \cup {w}]
                 /\ lastId' = [lastId EXCEPT ![t] = IF w.id > @ THEN w.id ELSE @]
                 /\ hlog' = [hlog EXCEPT ![t][u] =
                               Append(@, TxStamp(x, h, w.id, dev))]
           /\ seq' = [seq EXCEPT ![t][u] = h]
           /\ now' = now + 1
           /\ txs' = [txs EXCEPT ![q] = [pc |-> "done", h |-> h] @@ @]
    /\ UNCHANGED <<deleted, resp>>

TxRollback(q) ==
    /\ txs[q].pc = "open"
    /\ txs' = [txs EXCEPT ![q] = [pc |-> "aborted"] @@ @]
    /\ UNCHANGED <<rows, deleted, seq, lastId, now, hlog, resp>>

NextConc ==
    \/ \E q \in Reqs, t \in Types, u \in Users, d \in Devices,
           op \in {"Create", "Update"}, dom \in Doms : TxArrive(q, t, u, d, op, dom)
    \/ \E q \in Reqs : TxBegin(q)
    \/ \E q \in Reqs : TxCommit(q)
    \/ \E q \in Reqs : TxRollback(q)

SpecConc == Init /\ [][NextConc]_vars

\* ------------------------------------------------------------ router
\* The Router: a list of entries in the order of their registration, each a
\* method, a path and a handler.  A path is the sequence of its characters.
\* txs[1] holds the Router, resp what ServeHTTP did with a request.

\* Longest path registered, longest path requested, number of entries.
MaxPath == 3
MaxUrl == 4
MaxRoutes == 2

Chars == {"/", "a"}

Methods == {"GET", "PUT"}

PathsUpTo(n) == UNION {[1..k -> Chars] : k \in 0..n}

\* strings.HasPrefix(s, prefix)
HasPrefix(s, prefix) ==
    /\ Len(s) >= Len(prefix)
    /\ \A i \in 1..Len(prefix) : s[i] = prefix[i]

\* A match on the method and any prefix.
MatchAnyPrefix(e, r) == r.Method = e.Method /\ HasPrefix(r.Path, e.Path)

\* Entry.Match
Match(e, r) ==
    IF r.Method # e.Method THEN FALSE
    ELSE IF \/ r.Path = e.Path
            \/ /\ Len(e.Path) > 1
               /\ e.Path[Len(e.Path) - 1] # "/"
               /\ e.Path[Len(e.Path)] = "/"
               /\ HasPrefix(r.Path, e.Path)
         THEN TRUE
         ELSE FALSE

\* A loop that serves the request with every entry that matches.
RECURSIVE ServeAll(_, _, _)
ServeAll(routes, r, i) ==
    IF i > Len(routes) THEN <<>>
    ELSE (IF Match(routes[i], r) THEN <<routes[i].Handler>> ELSE <<>>)
           \o ServeAll(routes, r, i + 1)

\* The loop of Router.ServeHTTP from entry i on: the handlers it invokes; none
\* when it falls through to http.NotFound.
RECURSIVE Serve(_, _, _)
Serve(routes, r, i) ==
    IF i > Len(routes) THEN <<>>
    ELSE IF ~Match(routes[i], r) THEN Serve(routes, r, i + 1)
    ELSE <<routes[i].Handler>>

\* The status of the response: that of http.NotFound, or the handler's.
StatusNotFound == 404

\* A Router without entries.
NewRouter == [pc |-> "router", routes |-> <<>>]

InitRouter ==
    /\ rows = [t \in Types |-> {}]
    /\ deleted = [t \in Types |-> {}]
    /\ seq = [t \in Types |-> [u \in Users |-> 0]]
    /\ lastId = [t \in Types |-> 0]
    /\ now = 0
    /\ hlog = [t \in Types |-> [u \in Users |-> <<>>]]
    /\ resp = NoResp
    /\ txs = [q \in Reqs |-> IF q = 1 THEN NewRouter ELSE Idle]

\* Router.Route: the entry is appended.  The handler of the k-th entry is
\* handler k.
Route(method, path) ==
    /\ resp = NoResp
    /\ Len(txs[1].routes) < MaxRoutes
    /\ txs' = [txs EXCEPT ![1].routes =
                 Append(@, [Method |-> method, Path |-> path, Handler |-> Len(@) + 1])]
    /\ UNCHANGED <<rows, deleted, seq, lastId, now, hlog, resp>>

\* Router.ServeHTTP of a request; matched is what Match returns for each
\* entry.
RouterServeHTTP(method, path) ==
    /\ resp = NoResp
    /\ LET r == [Method |-> method, Path |-> path]
           routes == txs[1].routes
           invoked == Serve(routes, r, 1)
       IN  resp' = [op |-> "ServeHTTP", Method |-> method, Path |-> path,
                    matched |-> [i \in DOMAIN routes |-> Match(routes[i], r)],
                    invoked |-> invoked,
                    status |-> IF invoked = <<>> THEN StatusNotFound ELSE 0]
    /\ UNCHANGED <<rows, deleted, seq, lastId, now, hlog, txs>>

NextRouter ==
    \/ \E method \in Methods, path \in PathsUpTo(MaxPath) : Route(method, path)
    \/ \E method \in Methods, path \in PathsUpTo(MaxUrl) : RouterServeHTTP(method, path)
    \/ Respond

SpecRouter == InitRouter /\ [][NextRouter]_vars

\* ------------------------------------------------------------ service
\* The routes of the service and the requests it serves: the Router picks the
\* entry, the Authenticate middleware of a wrapped entry puts the user into
\* the context of the request and calls the handler, the handler calls the
\* repository and writes the response.  In the paths of the service a name
\* between two slashes stands for its characters.  txs[1] holds the Router,
\* txs[2] the request being served.

\* "/" and each name, one after the other.
RECURSIVE PathOf(_)
PathOf(names) ==
    IF names = <<>> THEN <<>> ELSE <<"/", Head(names)>> \o PathOf(Tail(names))

Api(names) == PathOf(<<"api", "v1">> \o names)

\* A route registered with the bare handler.
ApiAuthenticateNot(h) == <<h>>

\* svc.api.Authenticate(h): the middleware, then the handler.
ApiAuthenticate(h) == <<"api.Authenticate", h>>

\* svc.app.Authenticate(h)
AppAuthenticate(h) == <<"app.Authenticate", h>>

Entry(method, path, handler) == [Method |-> method, Path |-> path, Handler |-> handler]

\* The routes of one blob collection (bodies, files).
BlobRoutes(name, api) ==
    << Entry("POST", Api(<<name, "upload">>), ApiAuthenticate(api \o ".Upload")),
       Entry("GET", Api(<<name>>), ApiAuthenticate(api \o ".List")),
       Entry("POST", Api(<<name, "sync">>), ApiAuthenticate(api \o ".Sync")),
       Entry("HEAD", Api(<<name>>) \o <<"/">>, ApiAuthenticate(api \o ".Download")),
       Entry("GET", Api(<<name>>) \o <<"/">>, ApiAuthenticate(api \o ".Download")),
       Entry("POST", Api(<<name, "trash">>), ApiAuthenticate(api \o ".Trash")),
       Entry("POST", Api(<<name, "untrash">>), ApiAuthenticate(api \o ".Untrash")),
       Entry("DELETE", Api(<<name, "delete">>), ApiAuthenticate(api \o ".Delete")) >>

\* service.routes: the entries in the order of their registration.
routes ==
    << Entry("GET", <<"/">>, AppAuthenticate("app.HomePage")),
       Entry("GET", PathOf(<<"login">>), <<"app.LoginPage">>),
       Entry("GET", PathOf(<<"logout">>), <<"app.Logout">>),
       Entry("GET", PathOf(<<"register">>), <<"app.RegisterPage">>),
       Entry("GET", Api(<<"health">>), <<"Health.Healthcheck">>),
       Entry("POST", Api(<<"auth", "register">>), <<"User.Register">>),
       Entry("POST", Api(<<"auth", "authenticate">>), <<"Session.Login">>),
       Entry("POST", Api(<<"auth", "logout">>), <<"Session.Logout">>),
       Entry("PATCH", Api(<<"user", "profile">>), ApiAuthenticate("User.Profile")),
       Entry("GET", Api(<<"user", "profile">>), ApiAuthenticate("User.Profile")),
       Entry("POST", Api(<<"contacts">>), ApiAuthenticate("Contacts.Create")),
       Entry("GET", Api(<<"contacts">>), ApiAuthenticate("Contacts.List")),
       Entry("POST", Api(<<"contacts", "sync">>), ApiAuthenticate("Contacts.Sync")),
       Entry("PUT", Api(<<"contacts">>), ApiAuthenticate("Contacts.Update")),
       Entry("POST", Api(<<"contacts", "trash">>), ApiAuthenticate("Contacts.Trash")),
       Entry("POST", Api(<<"contacts", "untrash">>), ApiAuthenticate("Contacts.Untrash")),
       Entry("DELETE", Api(<<"contacts", "delete">>), ApiAuthenticate("Contacts.Delete")) >>
      \o BlobRoutes("bodies", "Bodies")
      \o BlobRoutes("files", "Files")
      \o << Entry("POST", Api(<<"drafts">>), ApiAuthenticate("Drafts.Create")),
            Entry("GET", Api(<<"drafts">>), ApiAuthenticate("Drafts.List")),
            Entry("GET", Api(<<"messages">>), ApiAuthenticate("Messages.List")) >>

\* The handlers of the entries, the middleware left out.
Handlers == {routes[i].Handler[Len(routes[i].Handler)] : i \in DOMAIN routes}

\* The handlers that serve anyone: pages, health and the auth API.
Public ==
    {"app.HomePage", "app.LoginPage", "app.Logout", "app.RegisterPage",
     "Health.Healthcheck", "User.Register", "Session.Login", "Session.Logout"}

\* The handlers that work for the user of the request context.
UserHandlers == Handlers \ Public

Middleware == {"api.Authenticate", "app.Authenticate"}

HttpMethods == {"GET", "HEAD", "POST", "PUT", "PATCH", "DELETE"}

\* The paths of requests: the registered ones, a name below each path that
\* ends in a slash, the profile path with a slash, and one that no entry has.
Urls ==
    {routes[i].Path : i \in DOMAIN routes}
      \cup {routes[i].Path \o <<"x">> :
              i \in {k \in DOMAIN routes : routes[k].Path[Len(routes[k].Path)] = "/"}}
      \cup {Api(<<"user", "profile">>) \o <<"/">>, PathOf(<<"nowhere">>)}

\* No user in the request context.
NoUser == "nil"

\* A handler that takes any context value for a user.
HasUserAlways(x) == TRUE

\* user, ok := r.Context().Value(repository.UserContextKey).(*repository.User)
HasUser(x) == x.user # NoUser

\* What the repository answers to the call of a handler.
Outcomes == {"nil", "ErrUsernameNotFound", "ErrStorage"}

Written(status, err, calls) ==
    [status |-> status, err |-> err, calls |-> calls, written |-> TRUE]

\* The handler returns without a call and without writing.
Unwritten == [status |-> 0, err |-> "nil", calls |-> <<>>, written |-> FALSE]

\* UserApi.Profile: what it calls and writes, the repository answering with o.
Profile(x, o) ==
    IF ~HasUser(x) THEN Written(500, "ErrMissingUserContext", <<>>)
    ELSE IF x.Method = "PUT"
    THEN IF x.body # "json" THEN Written(400, "ErrDecode", <<>>)
         ELSE IF o # "nil" THEN Written(500, o, <<"UpdateProfile">>)
         ELSE Written(200, "nil", <<"UpdateProfile">>)
    ELSE IF x.Method = "GET"
    THEN IF o = "ErrUsernameNotFound" THEN Written(403, o, <<"GetProfile">>)
         ELSE IF o # "nil" THEN Written(500, o, <<"GetProfile">>)
         ELSE Written(200, "nil", <<"GetProfile">>)
    ELSE Unwritten

\* The handler h of an entity: it fails without the user of the context, and
\* calls its repository otherwise.
EntityHandler(h, x, o) ==
    IF ~HasUser(x) THEN Written(500, "ErrMissingUserContext", <<>>)
    ELSE IF o # "nil" THEN Written(500, o, <<h>>)
    ELSE Written(200, "nil", <<h>>)

\* A page, the health check or a handler of the auth API: it asks for no user.
PublicHandler == Written(200, "nil", <<>>)

\* e.Handler.ServeHTTP(w, r): the handler h serves the request x.
Handle(h, x, o) ==
    IF h \in Public THEN PublicHandler
    ELSE IF h = "User.Profile" THEN Profile(x, o)
    ELSE EntityHandler(h, x, o)

\* The Router with the routes of the service.
InitService ==
    /\ rows = [t \in Types |-> {}]
    /\ deleted = [t \in Types |-> {}]
    /\ seq = [t \in Types |-> [u \in Users |-> 0]]
    /\ lastId = [t \in Types |-> 0]
    /\ now = 0
    /\ hlog = [t \in Types |-> [u \in Users |-> <<>>]]
    /\ resp = NoResp
    /\ txs = [q \in Reqs |-> IF q = 1 THEN [NewRouter EXCEPT !.routes = routes]
                             ELSE Idle]

Request(via, method, path, cred, body, chain) ==
    [pc |-> IF via = "router" THEN "serve" ELSE "chain", via |-> via,
     Method |-> method, Path |-> path, cred |-> cred, body |-> body,
     user |-> NoUser, chain |-> chain, ran |-> <<>>, status |-> 0, err |-> "nil",
     calls |-> <<>>, written |-> FALSE]

\* A request reaches the Router, with or without valid credentials.
Arrive(method, path, cred, body) ==
    /\ txs[2].pc = "idle"
    /\ txs' = [txs EXCEPT ![2] = Request("router", method, path, cred, body, <<>>)]
    /\ UNCHANGED <<rows, deleted, seq, lastId, now, hlog, resp>>

\* A handler is invoked with a request whose context has no user.
Invoke(h, method, body) ==
    /\ txs[2].pc = "idle"
    /\ txs' = [txs EXCEPT ![2] = Request("direct", method, <<>>, "none", body, <<h>>)]
    /\ UNCHANGED <<rows, deleted, seq, lastId, now, hlog, resp>>

\* Router.ServeHTTP: the handler of the first matching entry is invoked, or
\* http.NotFound answers.
ServeHTTP ==
    /\ txs[2].pc = "serve"
    /\ LET invoked == Serve(txs[1].routes, txs[2], 1)
       IN  txs' = [txs EXCEPT ![2] =
                     IF invoked = <<>>
                     THEN [@ EXCEPT !.pc = "done", !.status = StatusNotFound,
                                    !.written = TRUE]
                     ELSE [@ EXCEPT !.pc = "chain", !.chain = invoked[1]]]
    /\ UNCHANGED <<rows, deleted, seq, lastId, now, hlog, resp>>

\* The Authenticate middleware: with valid credentials it puts the user into
\* the context and calls the handler it wraps; without, it answers itself.
Authenticate ==
    /\ txs[2].pc = "chain"
    /\ Head(txs[2].chain) \in Middleware
    /\ txs' = [txs EXCEPT ![2] =
                 IF @.cred = "valid"
                 THEN [@ EXCEPT !.ran = Append(@, Head(txs[2].chain)),
                                !.chain = Tail(@), !.user = "U1"]
                 ELSE [@ EXCEPT !.ran = Append(@, Head(txs[2].chain)),
                                !.pc = "done", !.status = 401, !.written = TRUE,
                                !.err = "ErrUnauthorized"]]
    /\ UNCHANGED <<rows, deleted, seq, lastId, now, hlog, resp>>

\* The handler runs.
HandlerRuns ==
    /\ txs[2].pc = "chain"
    /\ Head(txs[2].chain) \notin Middleware
    /\ \E o \in Outcomes :
         LET h == Head(txs[2].chain)
             out == Handle(h, txs[2], o)
         IN  txs' = [txs EXCEPT ![2] =
                       [@ EXCEPT !.pc = "done", !.ran = Append(@, h),
                                 !.status = out.status, !.err = out.err,
                                 !.calls = out.calls, !.written = out.written]]
    /\ UNCHANGED <<rows, deleted, seq, lastId, now, hlog, resp>>

\* The request is over.
Served ==
    /\ txs[2].pc = "done"
    /\ txs' = [txs EXCEPT ![2] = Idle]
    /\ UNCHANGED <<rows, deleted, seq, lastId, now, hlog, resp>>

NextService ==
    \/ \E method \in HttpMethods, path \in Urls, cred \in {"valid", "none"},
          body \in {"json", "garbage"} : Arrive(method, path, cred, body)
    \/ \E h \in UserHandlers, method \in HttpMethods, body \in {"json", "garbage"} :
         Invoke(h, method, body)
    \/ ServeHTTP
    \/ Authenticate
    \/ HandlerRuns
    \/ Served

SpecService == InitService /\ [][NextService]_vars

\* ------------------------------------------------------------ properties
\* The committed stamps of one record, and the last of them.
StampsOf(t, u, id) == {i \in DOMAIN hlog[t][u] : hlog[t][u][i].id = id}

LastStamp(t, u, id) ==
    LET at == CHOOSE i \in StampsOf(t, u, id) : \A j \in StampsOf(t, u, id) : j <= i
    IN  hlog[t][u][at]

\* The ids of the records in a bucket of a response.
IdsIn(bucket) == {bucket[i].id : i \in DOMAIN bucket}

BucketIds(r) == IdsIn(r.inserted) \cup IdsIn(r.updated) \cup IdsIn(r.trashed)

\* The user's rows of the response's type, and its tombstones.
RowsOf(r) == {x \in rows[r.type] : x.userId = r.user}

TombsOf(r) == {x \in deleted[r.type] : x.userId = r.user}

\* A row or tombstone is in the window of the response and not the caller's.
InWindow(x, r) ==
    /\ x.historyId > r.since
    /\ (x.deviceId = NULL \/ x.deviceId # r.device)

\* A sequence lists exactly the elements of a set, each once.
Lists(s, S) == Range(s) = S /\ Len(s) = Cardinality(S)

\* C1: a Sync response holds exactly the user's rows that have a history id
\* strictly greater than the requested one and a device id that is null or not
\* the caller's, in the bucket of their current lastStmt (0 inserted, 1 updated,
\* 2 trashed), and the user's tombstones under the same two restrictions.
C1_SyncBuckets ==
    resp.op = "Sync" =>
        /\ Lists(resp.inserted, {x \in RowsOf(resp) : x.lastStmt = 0 /\ InWindow(x, resp)})
        /\ Lists(resp.updated, {x \in RowsOf(resp) : x.lastStmt = 1 /\ InWindow(x, resp)})
        /\ Lists(resp.trashed, {x \in RowsOf(resp) : x.lastStmt = 2 /\ InWindow(x, resp)})
        /\ Lists(resp.deleted, {x \in TombsOf(resp) : InWindow(x, resp)})

\* A Sync that returns a row and leaves out a row of another device that is
\* stamped with exactly the requested history id.
C1_Witness ==
    /\ resp.op = "Sync"
    /\ BucketIds(resp) # {}
    /\ \E x \in RowsOf(resp) : x.historyId = resp.since /\ x.deviceId # resp.device

\* The stamp is that of a Create, Update, Trash or Untrash.
ByMutation(m) == m.op \in {"Create", "Update", "Trash", "Untrash"}

\* C2 as stated: a stored record last mutated by device D is in no bucket of a
\* Sync called by D, and is in a bucket of the Sync of any other device,
\* whatever history id the Sync is called with.
C2_AnySince ==
    resp.op = "Sync" =>
        \A x \in RowsOf(resp) :
            LET m == LastStamp(resp.type, resp.user, x.id)
            IN  ByMutation(m) =>
                  /\ m.dev = resp.device => x.id \notin BucketIds(resp)
                  /\ (m.dev \in Devices /\ m.dev # resp.device) =>
                        x.id \in BucketIds(resp)

\* C2: a stored record last mutated by device D is in no bucket of a Sync
\* called by D; in the Sync of any other device it is in a bucket exactly when
\* the history id of that mutation is greater than the requested history id.
C2_OwnDeviceExcluded ==
    resp.op = "Sync" =>
        \A x \in RowsOf(resp) :
            LET m == LastStamp(resp.type, resp.user, x.id)
            IN  ByMutation(m) =>
                  /\ m.dev = resp.device => x.id \notin BucketIds(resp)
                  /\ (m.dev \in Devices /\ m.dev # resp.device) =>
                        (x.id \in BucketIds(resp) <=> m.h > resp.since)

\* A Sync over two records mutated after the requested history id, one last
\* trashed by the caller's device and one last mutated by another device.
C2_Witness ==
    /\ resp.op = "Sync"
    /\ \E x, y \in RowsOf(resp) :
          LET mx == LastStamp(resp.type, resp.user, x.id)
              my == LastStamp(resp.type, resp.user, y.id)
          IN  /\ mx.op = "Trash" /\ mx.dev = resp.device /\ mx.h > resp.since
              /\ my.dev \in Devices \ {resp.device} /\ my.h > resp.since
              /\ x.id \notin BucketIds(resp)
              /\ y.id \in BucketIds(resp)

\* The stamps a step adds to the log of (t, u).
NewStamps(t, u) == (Len(hlog[t][u]) + 1)..Len(hlog'[t][u])

C3_Step ==
    \A t \in Types, u \in Users :
        /\ \A i \in NewStamps(t, u) : \A j \in 1..(i - 1) :
              hlog'[t][u][j].h < hlog'[t][u][i].h
        /\ \A y \in rows'[t] \ rows[t] : y.userId = u =>
              \E i \in NewStamps(t, u) :
                  hlog'[t][u][i].id = y.id /\ hlog'[t][u][i].h = y.historyId
        /\ \A x \in rows[t], y \in rows'[t] : x.id = y.id => y.historyId >= x.historyId
        /\ NewStamps(t, u) # {} =>
              /\ \A o \in Types \ {t} : seq'[o] = seq[o] /\ hlog'[o] = hlog[o]
              /\ \A v \in Users \ {u} : seq'[t][v] = seq[t][v]

\* C3: every history id a mutation assigns is greater than every history id
\* assigned before it for the same user and entity type, the rows of one bulk
\* statement included; every row a mutation writes carries a newly assigned
\* id; the history id of a record never decreases; and a mutation of one
\* entity type leaves the sequences of the other types where they are.
C3_HistoryIds == [][C3_Step]_vars

\* A bulk Trash has stamped two records, after their two Creates.
C3_Witness ==
    \E t \in Types, u \in Users :
        /\ Len(hlog[t][u]) = 4
        /\ hlog[t][u][3].op = "Trash" /\ hlog[t][u][4].op = "Trash"
        /\ hlog[t][u][3].id # hlog[t][u][4].id
        /\ \A x \in rows[t] : x.historyId \in {3, 4}

\* C4: under every interleaving of concurrent write transactions of one user
\* on one entity type, the history ids of the committed mutations increase
\* strictly in commit order, so that no two mutations hold the same id.
C4_CommitOrder ==
    /\ \A t \in Types, u \in Users : \A i, j \in DOMAIN hlog[t][u] :
          i < j => hlog[t][u][i].h < hlog[t][u][j].h
    /\ \A p, q \in Reqs :
          (/\ p # q /\ txs[p].pc = "done" /\ txs[q].pc = "done"
           /\ txs[p].type = txs[q].type /\ txs[p].user = txs[q].user)
          => txs[p].h # txs[q].h

\* Two transactions on the same sequence have both committed, one of them
\* having arrived while the other was waiting or open.
C4_Witness ==
    \E p, q \in Reqs :
        /\ p # q /\ txs[p].pc = "done" /\ txs[q].pc = "done"
        /\ txs[p].type = txs[q].type /\ txs[p].user = txs[q].user
        /\ txs[q].conc
        /\ txs[p].op = "Create" /\ txs[q].op = "Update"

\* The largest history id ever assigned for (t, u), 0 when there is none.
MaxAssigned(t, u) ==
    LET hs == {hlog[t][u][i].h : i \in DOMAIN hlog[t][u]} \cup {0}
    IN  CHOOSE h \in hs : \A k \in hs : k <= h

Reads == {"List", "Sync"}

C5_Read ==
    resp.op \in Reads =>
        /\ resp.history = MaxAssigned(resp.type, resp.user)
        /\ \A x \in RowsOf(resp) \cup TombsOf(resp) : x.historyId <= resp.history

C5_Step ==
    /\ \A t \in Types, u \in Users : MaxAssigned(t, u)' >= MaxAssigned(t, u)
    /\ (/\ resp.op \in Reads /\ resp'.op \in Reads
        /\ resp'.type = resp.type /\ resp'.user = resp.user)
       => resp'.history >= resp.history

\* C5: the high-water-mark a List or Sync returns is the largest history id
\* ever assigned for the user and entity type, whoever calls and whatever
\* history id is requested, and is at least the history id of every stored
\* row and tombstone; the largest assigned id never decreases, and neither
\* does the high-water-mark from one read to the next.
C5_HighWaterMark == []C5_Read /\ [][C5_Step]_vars

\* A Sync with a positive requested history id returns a high-water-mark
\* that no stored row or tombstone carries any more.
C5_Witness ==
    /\ resp.op = "Sync"
    /\ resp.since > 0
    /\ RowsOf(resp) # {}
    /\ \A x \in RowsOf(resp) \cup TombsOf(resp) : x.historyId < resp.history

\* The stamps of a record that lie after the requested history id.
Later(r, id) ==
    {i \in StampsOf(r.type, r.user, id) : hlog[r.type][r.user][i].h > r.since}

\* C6 as stated: a stored record that a device other than the caller mutated
\* after the requested history id is in a bucket of the Sync, also when the
\* caller mutated it afterwards; a record mutated after it by the caller
\* alone is in none.
C6_ChangesOfOthers ==
    resp.op = "Sync" =>
        \A x \in RowsOf(resp) :
            LET log == hlog[resp.type][resp.user]
                later == Later(resp, x.id)
            IN  /\ (\E i \in later : log[i].dev \in Devices \ {resp.device})
                      => x.id \in BucketIds(resp)
                /\ (later # {} /\ \A i \in later : log[i].dev = resp.device)
                      => x.id \notin BucketIds(resp)

\* How often a record is listed in a bucket.
Times(bucket, id) == Cardinality({i \in DOMAIN bucket : bucket[i].id = id})

\* A stored record created after the requested history id whose last
\* mutation is a Trash.
CreatedThenTrashed(r, id) ==
    /\ \E i \in Later(r, id) : hlog[r.type][r.user][i].op = "Create"
    /\ LastStamp(r.type, r.user, id).op = "Trash"

\* C7 as stated: a record created and then trashed after the requested
\* history id is listed once in trashed and not in inserted or updated,
\* whoever calls.
C7_AnyCaller ==
    resp.op = "Sync" =>
        \A x \in RowsOf(resp) : CreatedThenTrashed(resp, x.id) =>
            /\ Times(resp.trashed, x.id) = 1
            /\ x.id \notin IdsIn(resp.inserted) \cup IdsIn(resp.updated)

\* C7: a record created and then trashed after the requested history id is
\* never in inserted or updated; it is listed once in trashed for every caller
\* but the device that trashed it, which finds it in no bucket.
C7_TrashedOnce ==
    resp.op = "Sync" =>
        \A x \in RowsOf(resp) : CreatedThenTrashed(resp, x.id) =>
            /\ x.id \notin IdsIn(resp.inserted) \cup IdsIn(resp.updated)
            /\ Times(resp.trashed, x.id) =
                  IF LastStamp(resp.type, resp.user, x.id).dev = resp.device
                  THEN 0 ELSE 1

\* A Sync by a device that did not trash it returns a record that was created,
\* updated and trashed after the requested history id.
C7_Witness ==
    /\ resp.op = "Sync"
    /\ \E x \in RowsOf(resp) :
          /\ CreatedThenTrashed(resp, x.id)
          /\ Cardinality(Later(resp, x.id)) = 3
          /\ LastStamp(resp.type, resp.user, x.id).dev # resp.device
          /\ x.id \in IdsIn(resp.trashed)

\* A stored record whose last mutation is an Update after the requested
\* history id.
LastUpdated(r, id) ==
    /\ LastStamp(r.type, r.user, id).op = "Update"
    /\ LastStamp(r.type, r.user, id).h > r.since

\* The entries of the updated bucket for a record carry what its last Update
\* wrote.
CarriesLatest(r, id) ==
    \A i \in DOMAIN r.updated : r.updated[i].id = id =>
        /\ r.updated[i].dom = LastStamp(r.type, r.user, id).dom
        /\ r.updated[i].historyId = LastStamp(r.type, r.user, id).h

\* C8 as stated: a record last updated after the requested history id is
\* listed once in updated, with the values and history id of its latest
\* Update, whoever calls.
C8_AnyCaller ==
    resp.op = "Sync" =>
        \A x \in RowsOf(resp) : LastUpdated(resp, x.id) =>
            /\ Times(resp.updated, x.id) = 1
            /\ x.id \notin IdsIn(resp.inserted) \cup IdsIn(resp.trashed)
            /\ CarriesLatest(resp, x.id)

\* C8: a record last updated after the requested history id is never in
\* inserted or trashed; it is listed once in updated, with the values and the
\* history id of its latest Update, for every caller but the device that made
\* that Update, which finds it in no bucket.
C8_LatestUpdate ==
    resp.op = "Sync" =>
        \A x \in RowsOf(resp) : LastUpdated(resp, x.id) =>
            /\ x.id \notin IdsIn(resp.inserted) \cup IdsIn(resp.trashed)
            /\ Times(resp.updated, x.id) =
                  IF LastStamp(resp.type, resp.user, x.id).dev = resp.device
                  THEN 0 ELSE 1
            /\ CarriesLatest(resp, x.id)

\* A Sync by another device returns a record updated twice after the
\* requested history id, with different values.
C8_Witness ==
    /\ resp.op = "Sync"
    /\ \E x \in RowsOf(resp) :
          LET log == hlog[resp.type][resp.user]
              ups == {i \in Later(resp, x.id) : log[i].op = "Update"}
          IN  /\ LastUpdated(resp, x.id)
              /\ \E i, j \in ups : i < j /\ log[i].dom # log[j].dom
              /\ x.id \in IdsIn(resp.updated)

NoBuckets(r) ==
    r.inserted = <<>> /\ r.updated = <<>> /\ r.trashed = <<>> /\ r.deleted = <<>>

\* C9 as stated: the second of two Syncs called with the same history id,
\* with no write in between, returns four empty buckets.
C9_SecondEmpty == (resp.op = "Sync" /\ resp.again) => NoBuckets(resp)

C9_Step ==
    (resp.op = "Sync" /\ resp'.op = "Sync") =>
        /\ resp'.again =>
              /\ resp'.since = resp.since
              /\ resp'.inserted = resp.inserted
              /\ resp'.updated = resp.updated
              /\ resp'.trashed = resp.trashed
              /\ Range(resp'.deleted) = Range(resp.deleted)
              /\ Len(resp'.deleted) = Len(resp.deleted)
              /\ resp'.history = resp.history
        /\ resp'.since = resp.history =>
              /\ NoBuckets(resp')
              /\ resp'.history = resp.history

\* C9: the second of two Syncs called with the same history id, with no write
\* in between, returns the same four buckets and the same high-water-mark as
\* the first; a Sync called with the high-water-mark the Sync before it
\* returned, with no write in between, returns four empty buckets and that
\* high-water-mark again.
C9_Idempotent == [][C9_Step]_vars

\* The second of two Syncs with the same history id returns a row and a
\* tombstone.
C9_Witness ==
    /\ resp.op = "Sync"
    /\ resp.again
    /\ BucketIds(resp) # {}
    /\ resp.deleted # <<>>

\* No record of the user has ever been updated or trashed.
NeverUpdatedOrTrashed(t, u) ==
    \A i \in DOMAIN hlog[t][u] : hlog[t][u][i].op \notin {"Update", "Trash"}

\* A Sync from the start by the client that holds the response of a List.
ListThenSync ==
    /\ resp.op = "List" /\ resp'.op = "Sync"
    /\ resp'.since = 0
    /\ NeverUpdatedOrTrashed(resp.type, resp.user)

\* C10 as stated: when no record has ever been updated or trashed, the
\* inserted bucket of Sync(user, 0) holds the records List(user) returns, and
\* the two high-water-marks are equal.
C10_SameAsList ==
    [][ListThenSync =>
          /\ IdsIn(resp'.inserted) = IdsIn(resp.items)
          /\ resp'.history = resp.history]_vars

\* C10: when no record has ever been updated or trashed, the inserted bucket
\* of Sync(user, 0) holds the records List(user) returns that are not
\* attributed to the calling device, each once, and the two high-water-marks
\* are equal.
C10_ListButOwn ==
    [][ListThenSync =>
          /\ IdsIn(resp'.inserted) =
                {resp.items[i].id : i \in {j \in DOMAIN resp.items :
                                             resp.items[j].deviceId # resp'.device}}
          /\ \A x \in IdsIn(resp'.inserted) : Times(resp'.inserted, x) = 1
          /\ resp'.history = resp.history]_vars

\* A Sync from the start, called by the client that holds a List of two
\* records never updated or trashed, returns the one that is not its own.
C10_Witness ==
    /\ resp.op = "Sync"
    /\ resp.listed
    /\ resp.since = 0
    /\ NeverUpdatedOrTrashed(resp.type, resp.user)
    /\ Len(resp.inserted) = 1
    /\ \E x \in RowsOf(resp) : x.deviceId = resp.device /\ x.lastStmt = 0
    /\ \E x \in RowsOf(resp) : x.deviceId = NULL

\* The store after Create Contact A by D1, Create Contact B by D1 and Update A
\* by D2, from the empty store, answering Sync(since = 0) to D1.
Scenario ==
    /\ now = 3
    /\ Len(hlog["Contact"]["U1"]) = 3
    /\ LET log == hlog["Contact"]["U1"]
       IN  /\ log[1].op = "Create" /\ log[1].id = 1 /\ log[1].dev = "D1"
           /\ log[2].op = "Create" /\ log[2].id = 2 /\ log[2].dev = "D1"
           /\ log[3].op = "Update" /\ log[3].id = 1 /\ log[3].dev = "D2"
    /\ resp.op = "Sync" /\ resp.type = "Contact" /\ resp.user = "U1"
    /\ resp.device = "D1" /\ resp.since = 0

\* The history ids the scenario assigns, the state of A and the buckets that
\* do not depend on the caller.
ScenarioCommon ==
    /\ \A i \in 1..3 : hlog["Contact"]["U1"][i].h = i
    /\ RowOf(rows["Contact"], "U1", 1).lastStmt = 1
    /\ RowOf(rows["Contact"], "U1", 1).historyId = 3
    /\ RowOf(rows["Contact"], "U1", 2).historyId = 2
    /\ Len(resp.updated) = 1 /\ resp.updated[1].id = 1
    /\ resp.trashed = <<>> /\ resp.deleted = <<>>
    /\ resp.history = 3

\* C11 as stated: in the scenario the Sync of D1 returns inserted = [B],
\* updated = [A], trashed = [], deleted = [] and high-water-mark 3.
C11_InsertedB ==
    Scenario => (ScenarioCommon /\ Len(resp.inserted) = 1 /\ resp.inserted[1].id = 2)

\* C11: in the scenario the history ids are 1, 2, 3 and A has lastStmt 1; the
\* Sync of D1 returns inserted = [] (B is D1's own record), updated = [A],
\* trashed = [], deleted = [] and high-water-mark 3.
C11_Scenario == Scenario => (ScenarioCommon /\ resp.inserted = <<>>)

\* The scenario has run and the Sync of D1 is answered.
C11_Witness == Scenario /\ ~resp.again /\ Cardinality(rows["Contact"]) = 2

\* The stamps of a record made by one kind of statement.
StampsBy(t, u, id, op) == {i \in StampsOf(t, u, id) : hlog[t][u][i].op = op}

\* A record that was trashed and whose last mutation is a Delete.
TrashedThenDeleted(t, u, id) ==
    /\ StampsBy(t, u, id, "Trash") # {}
    /\ LastStamp(t, u, id).op = "Delete"

\* The requested history id precedes the Trash and the Delete of the record.
PrecedesTrash(r, id) ==
    \A i \in StampsBy(r.type, r.user, id, "Trash") :
        hlog[r.type][r.user][i].h > r.since

\* After the Delete, no List and no Sync bucket of rows reports the Blob.
GoneFromRows(id) ==
    /\ resp.op = "List" => id \notin IdsIn(resp.items)
    /\ resp.op = "Sync" => id \notin BucketIds(resp)

\* C12 as stated: a Blob trashed and then deleted is in the deleted bucket of
\* every Sync whose history id precedes both, and never again in trashed or in
\* a List.
C12_AnyCaller ==
    (resp.op \in Reads /\ resp.type = "Blob") =>
        \A id \in Ids : TrashedThenDeleted("Blob", resp.user, id) =>
            /\ GoneFromRows(id)
            /\ (resp.op = "Sync" /\ PrecedesTrash(resp, id)) =>
                  Times(resp.deleted, id) = 1

\* The device a deleted Blob's tombstone is attributed to: that of the latest
\* Delete that named the Blob.
TombDevice(u, id) ==
    (CHOOSE x \in deleted["Blob"] : x.userId = u /\ x.id = id).deviceId

\* C12: a Blob trashed and then deleted has a tombstone and is never again in
\* a bucket of rows of a Sync or in a List; a Sync whose history id precedes
\* both reports it once in deleted to every caller but the device its
\* tombstone is attributed to, which finds it in no bucket.
C12_TrashThenDelete ==
    (resp.op \in Reads /\ resp.type = "Blob") =>
        \A id \in Ids : TrashedThenDeleted("Blob", resp.user, id) =>
            /\ \E x \in deleted["Blob"] : x.userId = resp.user /\ x.id = id
            /\ GoneFromRows(id)
            /\ (resp.op = "Sync" /\ PrecedesTrash(resp, id)) =>
                  Times(resp.deleted, id) =
                      IF TombDevice(resp.user, id) = resp.device THEN 0 ELSE 1

\* A Sync from before the Trash reports a trashed and deleted Blob in deleted
\* to a device that did not delete it.
C12_Witness ==
    /\ resp.op = "Sync" /\ resp.type = "Blob"
    /\ \E id \in Ids :
          /\ TrashedThenDeleted("Blob", resp.user, id)
          /\ PrecedesTrash(resp, id)
          /\ LastStamp("Blob", resp.user, id).dev \in Devices \ {resp.device}
          /\ TombDevice(resp.user, id) # resp.device
          /\ id \in IdsIn(resp.deleted)

\* The entity types whose Delete writes no tombstone.
Untombed == {"Contact", "Draft"}

\* The record id of user u was created and its row is no longer stored.
Removed(t, u, id) ==
    /\ StampsBy(t, u, id, "Create") # {}
    /\ \A x \in rows[t] : x.id # id

\* C13: Delete of a Contact or a Draft leaves no tombstone, and the id of the
\* removed record is in no bucket of any Sync, whatever the device and the
\* history id of the call.
C13_NoTombstone ==
    \A t \in Untombed :
        /\ deleted[t] = {}
        /\ (resp.op = "Sync" /\ resp.type = t) =>
              \A id \in Ids : Removed(t, resp.user, id) =>
                  id \notin BucketIds(resp) \cup IdsIn(resp.deleted)

C13_Witness ==
    /\ resp.op = "Sync"
    /\ resp.type \in Untombed
    /\ \E id \in Ids :
          /\ Removed(resp.type, resp.user, id)
          /\ resp.since < hlog[resp.type][resp.user][1].h
          /\ LastStamp(resp.type, resp.user, id).dev # resp.device

\* C14: List returns the stored records of the user whose lastStmt is below 2,
\* each once, whatever device wrote them last; no trashed record and no
\* deleted record is among them.
C14_ListLive ==
    resp.op = "List" =>
        /\ Lists(resp.items, {x \in RowsOf(resp) : x.lastStmt \in {0, 1}})
        /\ \A id \in IdsIn(resp.items) :
              /\ LastStamp(resp.type, resp.user, id).op \notin {"Trash", "Delete"}
              /\ ~Removed(resp.type, resp.user, id)

C14_Witness ==
    /\ resp.op = "List"
    /\ Len(resp.items) = 1
    /\ resp.items[1].deviceId \in Devices
    /\ \E x \in RowsOf(resp) : x.lastStmt = 2 /\ x.deviceId # resp.items[1].deviceId

\* The lastStmt of every record a step keeps, before and after the step.
StmtChanges ==
    UNION {{<<p[1].lastStmt, p[2].lastStmt>> :
               p \in {q \in rows[t] \X rows'[t] : q[1].id = q[2].id}}
             : t \in Types}

C15_Step ==
    /\ StmtChanges \subseteq
          {<<a, a>> : a \in 0..2} \cup {<<0, 1>>, <<0, 2>>, <<1, 2>>, <<2, 0>>}
    /\ <<0, 1>> \in StmtChanges => resp'.op = "Update"
    /\ StmtChanges \cap {<<0, 2>>, <<1, 2>>} # {} => resp'.op = "Trash"
    /\ <<2, 0>> \in StmtChanges => resp'.op = "Untrash"
    /\ resp'.op = "Untrash" => StmtChanges \cap {<<0, 1>>, <<0, 2>>, <<1, 0>>, <<1, 2>>} = {}

\* C15: the lastStmt of a record changes only from 0 to 1 by Update, from 0 or
\* 1 to 2 by Trash and from 2 to 0 by Untrash; it never goes from 2 to 1, and
\* Untrash of a record that is not trashed leaves its lastStmt as it is.
C15_Transitions == [][C15_Step]_vars

\* The record an Update names is stored for the user and not trashed.
Updatable(r) ==
    \E x \in rows[r.type] : x.userId = r.user /\ x.id = r.id /\ x.lastStmt # 2

C16_Step ==
    (resp'.op = "Update" /\ ~Updatable(resp')) =>
        /\ resp'.err \in {NotFoundErr(resp'.type)} \cup StoreErrs
        /\ UNCHANGED <<rows, deleted, seq, lastId, hlog>>

\* C16: an Update that names a record the user does not have, a deleted
\* record or a trashed record fails with the NotFound error of the entity
\* type, the statement failing in the store or on its deadline apart, which
\* fails with that error, and changes no record, no tombstone and no sequence.
C16_UpdateNotFound == [][C16_Step]_vars

\* An Update of a trashed record has failed with NotFound.
C16_Witness ==
    /\ resp.op = "Update"
    /\ resp.err = NotFoundErr(resp.type)
    /\ \E x \in rows[resp.type] :
          x.userId = resp.user /\ x.id = resp.id /\ x.lastStmt = 2

\* The history ids assigned so far to the user's records of one type.
Assigned(t, u) ==
    {hlog[t][u][i].h : i \in DOMAIN hlog[t][u]}
      \cup {x.historyId : x \in {y \in rows[t] \cup deleted[t] : y.userId = u}}

C17_Step ==
    (resp'.op = "Update" /\ resp'.err = "nil") =>
        LET t   == resp'.type
            u   == resp'.user
            old == RowOf(rows[t], u, resp'.id)
            new == RowOf(rows'[t], u, resp'.id)
            req == hlog'[t][u][Len(hlog'[t][u])]
        IN  /\ old \in rows[t] /\ old.lastStmt \in {0, 1}
            /\ new \in rows'[t]
            /\ req.op = "Update" /\ req.id = resp'.id
            /\ new.dom = req.dom
            /\ new.lastStmt = 1
            /\ new.deviceId = req.dev
            /\ new.modifiedAt = now' /\ new.modifiedAt > old.modifiedAt
            /\ \A h \in Assigned(t, u) : new.historyId > h
            /\ new.id = old.id /\ new.userId = old.userId
            /\ new.createdAt = old.createdAt
            /\ rows'[t] \ {new} = rows[t] \ {old}
            /\ \A o \in Types \ {t} : rows'[o] = rows[o]
            /\ deleted' = deleted

\* C17: a successful Update of a record that is not trashed sets its domain
\* fields to the values supplied, its lastStmt to 1, its deviceId to the
\* device of the caller and its modifiedAt to the time of the call, and gives
\* it a history id greater than every one assigned before; the id, userId and
\* createdAt of the record, every other record and every tombstone stay as
\* they were.
C17_UpdateEffect == [][C17_Step]_vars

\* A record last written by one device has been updated by another, with new
\* domain fields, next to a second record.
C17_Witness ==
    /\ resp.op = "Update" /\ resp.err = "nil"
    /\ RowOf(rows[resp.type], resp.user, resp.id).lastStmt = 1
    /\ LET log == hlog[resp.type][resp.user]
           dev == RowOf(rows[resp.type], resp.user, resp.id).deviceId
       IN  /\ Len(log) >= 3
           /\ log[Len(log)].dev = dev
           /\ \E i \in 1..(Len(log) - 1) : log[i].id = resp.id /\ log[i].dev # dev
    /\ \E x \in rows[resp.type] : x.id # resp.id

\* The rows a step has added to the table of type t.
Created(t) == rows'[t] \ rows[t]

\* The step has stored r as the one new record of type t of user u, stamped as
\* a Create is, and has left everything else as it was.
StoredByCreate(t, u, r) ==
    LET req == hlog'[t][u][Len(hlog'[t][u])]
    IN  /\ Len(hlog'[t][u]) = Len(hlog[t][u]) + 1
        /\ req.op = "Create" /\ req.id = r.id
        /\ rows'[t] = rows[t] \cup {r}
        /\ Cardinality(rows'[t]) = Cardinality(rows[t]) + 1
        /\ \A x \in rows[t] : x.id # r.id
        /\ r.userId = u
        /\ r.lastStmt = 0
        /\ r.deviceId = req.dev
        /\ r.historyId = seq[t][u] + 1
        /\ seq'[t][u] = r.historyId
        /\ \A o \in Types \ {t} : rows'[o] = rows[o]
        /\ deleted' = deleted

C18_Step ==
    (resp'.op = "Create" /\ resp'.err = "nil") =>
        \E t \in Types, u \in Users :
            \E r \in Created(t) : StoredByCreate(t, u, r) /\ resp'.rec = r

\* C18: a successful Create adds one record of the calling user, with an id
\* no stored record has, lastStmt 0, the device of the caller as deviceId and
\* the next value of the history sequence as historyId, and returns the record
\* as stored; the records and tombstones there were stay as they were.
C18_CreateEffect == [][C18_Step]_vars

\* The Contact Create or Update a response answers would store a second
\* contact with the same email address, first name and last name.
WouldShare(r) ==
    /\ r.op \in {"Create", "Update"}
    /\ r.type = "Contact"
    /\ r.op = "Update" => Updatable(r)
    /\ \E x \in rows["Contact"] :
          ~(x.userId = r.user /\ x.id = r.id) /\ x.dom = r.dom

C19_Step ==
    WouldShare(resp') =>
        /\ resp'.err \in {"ErrDuplicateContact"} \cup StoreErrs
        /\ UNCHANGED <<rows, deleted, seq, lastId, hlog>>

\* C19: a Contact Create or Update that would make two stored contacts share
\* email address, first name and last name fails with the DuplicateContact
\* error, the statement failing in the store or on its deadline apart, which
\* fails with that error; it changes no record and does not advance the history
\* sequence; no two stored contacts ever share the three fields.
C19_DuplicateContact ==
    /\ [](\A x, y \in rows["Contact"] : x.dom = y.dom => x.id = y.id)
    /\ [][C19_Step]_vars

\* An Update of a contact to the fields of another stored contact has failed.
C19_Witness ==
    /\ resp.op = "Update"
    /\ resp.err = "ErrDuplicateContact"
    /\ Updatable(resp)
    /\ \E x \in rows["Contact"] :
          ~(x.userId = resp.user /\ x.id = resp.id) /\ x.dom = resp.dom

\* The stored records of the user that a Trash, an Untrash or a Delete names.
Existing(r) == {x \in rows[r.type] : x.userId = r.user /\ x.id \in r.ids}

\* What the call does to a record it names, the store after it primed.
Changed(r, x) ==
    IF r.op = "Delete" THEN \A y \in rows'[r.type] : y.id # x.id
    ELSE \E y \in rows'[r.type] :
             /\ y.id = x.id
             /\ y.lastStmt = (IF r.op = "Trash" THEN 2 ELSE 0)
             /\ y.historyId > x.historyId

C20_Step ==
    resp'.op \in {"Trash", "Untrash", "Delete"} =>
        /\ resp'.err = "nil"
        /\ \A x \in Existing(resp') : Changed(resp', x)
        /\ rows[resp'.type] \ Existing(resp') \subseteq rows'[resp'.type]
        /\ Existing(resp') = {} => UNCHANGED <<rows, deleted, seq, lastId, hlog>>

\* C20: Trash, Untrash and Delete return no error whatever ids they are
\* given; every stored record of the caller among the ids is changed and the
\* other records are not; when no id names a stored record of the caller, the
\* empty id set included, the records, the tombstones and the history
\* sequences stay as they were.
C20_BestEffort == [][C20_Step]_vars

Mutations == {"Create", "Update", "Trash", "Untrash", "Delete"}

\* What the store holds of user v: records, tombstones, sequences, history.
StoreOf(v, rs, ds, sq, hl) ==
    [t \in Types |->
        [rows    |-> {x \in rs[t] : x.userId = v},
         deleted |-> {x \in ds[t] : x.userId = v},
         seq     |-> sq[t][v],
         hlog    |-> hl[t][v]]]

\* Everything a read returns: records and tombstones.
Returned(r) ==
    CASE r.op = "List" -> Range(r.items)
      [] r.op = "Sync" -> Range(r.inserted) \cup Range(r.updated)
                            \cup Range(r.trashed) \cup Range(r.deleted)
      [] r.op = "GetBlobByUri" -> {r.blob} \ {ZeroBlob}
      [] OTHER -> {}

C21_Step ==
    \A v \in Users :
        (resp'.op \in Mutations /\ resp'.user # v) =>
            StoreOf(v, rows', deleted', seq', hlog')
              = StoreOf(v, rows, deleted, seq, hlog)

\* C21: a Create, Update, Trash, Untrash or Delete of one user changes no
\* record, no tombstone and no history sequence of another user, also when it
\* names ids of the other user's records; a List, a Sync and a point lookup
\* return records and tombstones of the calling user only.
C21_UserIsolation ==
    /\ [](\A x \in Returned(resp) : x.userId = resp.user)
    /\ [][C21_Step]_vars

\* A Trash of one user has named a record of its own and a record of the
\* other user, and only its own is trashed.
C21_Witness ==
    /\ resp.op = "Trash"
    /\ \E x, y \in rows[resp.type] :
          /\ x.userId = resp.user /\ x.id \in resp.ids /\ x.lastStmt = 2
          /\ y.userId # resp.user /\ y.id \in resp.ids /\ y.lastStmt = 0

\* The rows of the calling user with the uri looked up that are not trashed.
LiveAt(r) ==
    {x \in rows["Blob"] :
        x.userId = r.user /\ x.id = r.uri /\ x.lastStmt \in {0, 1}}

\* C30: GetBlobByUri returns the zero Blob and no error when the calling user
\* has no row with the uri or has it trashed, the stored blob and no error
\* when a row that is not trashed matches, and the zero Blob with an error
\* when the query fails.
C30_PointLookup ==
    resp.op = "GetBlobByUri" =>
        IF resp.err = "nil"
        THEN IF LiveAt(resp) = {} THEN resp.blob = ZeroBlob
             ELSE resp.blob \in LiveAt(resp)
        ELSE resp.blob = ZeroBlob

\* A lookup of a trashed Blob of the calling user has returned the zero Blob
\* and no error.
C30_Witness ==
    /\ resp.op = "GetBlobByUri"
    /\ resp.err = "nil"
    /\ resp.blob = ZeroBlob
    /\ \E x \in rows["Blob"] :
          x.userId = resp.user /\ x.id = resp.uri /\ x.lastStmt = 2

\* The part of the store of (t, u) after the step.
ViewAfter(t, u) ==
    [rows |-> rows'[t], deleted |-> deleted'[t], seq |-> seq'[t][u],
     hlog |-> hlog'[t][u]]

\* Request q returns in this step.
Returns(q) == txs[q].pc # "idle" /\ txs'[q].pc = "idle"

\* The rows of the table that request x names.
NamedBy(x, table) == Named(table, x.user, x.ids)

C22_Step ==
    \A q \in Reqs :
        (Returns(q) /\ txs[q].op = "Delete" /\ txs[q].type = "Blob") =>
            LET x == txs[q]
            IN  IF resp'.err = "nil"
                THEN /\ NamedBy(x, rows'["Blob"]) = {}
                     /\ \A r \in NamedBy(x, x.before.rows) :
                           \E d \in deleted'["Blob"] :
                               /\ d.userId = x.user /\ d.id = r.id
                               /\ d.deviceId = x.dev
                               /\ d.historyId > x.before.seq
                ELSE ViewAfter("Blob", x.user) = x.before

\* Every Blob row that was created is stored or has a tombstone.
RemovedWithTombstone ==
    \A u \in Users : \A i \in DOMAIN hlog["Blob"][u] :
        LET m == hlog["Blob"][u][i]
        IN  m.op = "Create" =>
              \/ \E r \in rows["Blob"] : r.id = m.id /\ r.userId = u
              \/ \E d \in deleted["Blob"] : d.id = m.id /\ d.userId = u

\* C22: when a Delete of Blobs returns, with nil, with the error of either
\* statement or of the commit, or on its deadline, either the rows named are
\* removed and their tombstones are attributed to the caller's device, or the
\* Blob rows and tombstones are as they were before the call; at no time is a
\* row removed without a tombstone.
C22_DeleteAtomic == []RemovedWithTombstone /\ [][C22_Step]_vars

\* A Delete of two Blobs has failed after its DELETE had removed a row.
C22_Witness ==
    /\ resp.op = "Delete" /\ resp.type = "Blob"
    /\ resp.err # "nil"
    /\ resp.dirty
    /\ Cardinality(Named(rows["Blob"], resp.user, resp.ids)) = 2

\* A Trash, an Untrash or a Delete that returns the error of its deadline
\* leaves the store as it was when the request began.
C29_BulkStep ==
    \A q \in Reqs :
        (Returns(q) /\ resp'.err = "ErrDeadline") =>
            LET x == txs[q]
            IN  /\ ViewAfter(x.type, x.user) = x.before
                /\ \A o \in Types \ {x.type} :
                      /\ rows'[o] = rows[o] /\ deleted'[o] = deleted[o]
                      /\ seq'[o] = seq[o] /\ hlog'[o] = hlog[o]
                /\ lastId' = lastId

\* A Create or an Update that returns the error of its deadline leaves the
\* store as it was.
C29_RowStep ==
    (resp = NoResp /\ resp'.op \in {"Create", "Update"} /\ resp'.err = "ErrDeadline")
        => UNCHANGED <<rows, deleted, seq, lastId, hlog>>

\* Every stored row carries the history id of its latest stamp, and the
\* sequence of its user is at least that id.
RowsStamped ==
    \A t \in Types : \A r \in rows[t] :
        /\ StampsOf(t, r.userId, r.id) # {}
        /\ LastStamp(t, r.userId, r.id).h = r.historyId
        /\ r.historyId <= seq[t][r.userId]

\* C29: a Create, Update, Trash, Untrash or Delete whose deadline expires, at
\* whatever point, returns the error and leaves the store as it was before
\* the call: no part of the rows named is changed, no row is changed without
\* its history id being assigned, and no Blob row is removed without its
\* tombstone.
C29_DeadlineUndoes ==
    /\ [](RowsStamped /\ RemovedWithTombstone)
    /\ [][C29_BulkStep /\ C29_RowStep]_vars

\* The record or tombstone has no device and a history id after the one the
\* Sync was called with.
NullAndNewer(x, r) == x.deviceId = NULL /\ x.historyId > r.since

\* C23: a record or tombstone whose deviceId is null and whose history id is
\* greater than the one a Sync is called with is returned by that Sync,
\* whatever device calls it: the record in a bucket of rows, the tombstone in
\* deleted.
C23_NullToEveryDevice ==
    resp.op = "Sync" =>
        /\ \A x \in RowsOf(resp) : NullAndNewer(x, resp) =>
              x \in Range(resp.inserted) \cup Range(resp.updated)
                      \cup Range(resp.trashed)
        /\ \A x \in TombsOf(resp) : NullAndNewer(x, resp) =>
              x \in Range(resp.deleted)

\* A Sync of a device has returned a record and a tombstone without device.
C23_Witness ==
    /\ resp.op = "Sync"
    /\ resp.device \in Devices
    /\ \E x \in RowsOf(resp) : NullAndNewer(x, resp)
    /\ \E x \in TombsOf(resp) : NullAndNewer(x, resp) /\ x \in Range(resp.deleted)

\* The Blob id of user u was deleted by a device, after history id since.
DeletedByDevice(u, id, since) ==
    /\ StampsBy("Blob", u, id, "Delete") # {}
    /\ LastStamp("Blob", u, id).dev \in Devices
    /\ LastStamp("Blob", u, id).h > since

\* C24: after device D has deleted a Blob, a Sync of D called with a history
\* id before the Delete does not have the Blob in deleted, and the Sync of
\* any other device with that history id has it in deleted once.
C24_AttributedToDeleter ==
    (resp.op = "Sync" /\ resp.type = "Blob") =>
        \A id \in Ids : DeletedByDevice(resp.user, id, resp.since) =>
            Times(resp.deleted, id) =
                IF LastStamp("Blob", resp.user, id).dev = resp.device THEN 0 ELSE 1

\* What the store holds of the entity types other than t.
OtherTypes(t, rs, ds, sq, hl, ids) ==
    [o \in Types \ {t} |->
        [rows |-> rs[o], deleted |-> ds[o], seq |-> sq[o], hlog |-> hl[o],
         lastId |-> ids[o]]]

C28_Step ==
    resp'.op \in Mutations =>
        OtherTypes(resp'.type, rows', deleted', seq', hlog', lastId')
          = OtherTypes(resp'.type, rows, deleted, seq, hlog, lastId)

\* The history of one entity type is the one its own mutations make: the
\* ids 1, 2, .. in the order of the stamps, the sequence at the last of them,
\* each stored row as its latest stamp left it.
OwnHistory(t, u) ==
    /\ \A i \in DOMAIN hlog[t][u] : hlog[t][u][i].h = i
    /\ seq[t][u] = Len(hlog[t][u])
    /\ \A r \in rows[t] : r.userId = u =>
          /\ LastStamp(t, u, r.id).h = r.historyId
          /\ LastStamp(t, u, r.id).op \in
                CASE r.lastStmt = 0 -> {"Create", "Untrash"}
                  [] r.lastStmt = 1 -> {"Update"}
                  [] r.lastStmt = 2 -> {"Trash"}

\* C28: a mutation of one entity type leaves the records, tombstones and
\* history sequences of the other two types as they are, and however the
\* requests on different types interleave, the history of each type is the
\* one its own mutations make and a List or Sync of a type returns the
\* high-water-mark of that history.
C28_TypesIndependent ==
    /\ [](\A t \in Types, u \in Users : OwnHistory(t, u))
    /\ [](resp.op \in Reads =>
             resp.history = Len(hlog[resp.type][resp.user]))
    /\ [][C28_Step]_vars

\* A Sync of one entity type is answered after mutations of another type came
\* between the mutations of its own, the other history being the longer one.
C28_Witness ==
    /\ resp.op = "Sync"
    /\ resp.history = 1
    /\ \E o \in Types \ {resp.type} :
          /\ seq[o][resp.user] = 2
          /\ \E x \in rows[o], y \in rows[resp.type] : x.createdAt < y.createdAt

\* ------------------------------------------------------------ C26
\* The read of request q has returned an error.
ReadFailed(q) == txs[q].pc = "failed"

\* The read of request q has returned its result.
ReadDone(q) == txs[q].pc = "done"

\* C26: a List or Sync of which a query (or the commit) failed returns an
\* error and no result object, whichever query it was and however many buckets
\* were filled before it; a read that returns a result object returns no error.
C26_NoPartialResult ==
    \A q \in Reqs :
        /\ ReadFailed(q) => txs[q].err # "nil" /\ txs[q].res = Nil
        /\ ReadDone(q) => txs[q].err = "nil" /\ txs[q].res # Nil

\* A Sync that failed at its last query, the high-water-mark, after a bucket
\* query had a record to return.
C26_Witness ==
    \E q \in Reqs :
        /\ ReadFailed(q)
        /\ txs[q].op = "Sync"
        /\ txs[q].at = "history"
        /\ \E x \in RowsOf(txs[q]) : InWindow(x, txs[q])

\* ------------------------------------------------------------ C25
\* Request q takes a step of a List or Sync: it begins, runs a query, commits,
\* fails or returns.
ReadStep(q) == txs'[q] # txs[q]

\* The step changes no record, no tombstone and no history sequence of any
\* entity type, nor the id counters.
C25_Step ==
    \A q \in Reqs : ReadStep(q) =>
        /\ rows' = rows
        /\ deleted' = deleted
        /\ seq' = seq
        /\ lastId' = lastId
        /\ hlog' = hlog

\* C25: Sync and List have no side effects: no step of either, be it a query
\* that succeeds, a query that fails, the commit or the return, changes a
\* record, a tombstone or the history sequence, so a Sync repeated after a
\* failure reads the store the failed call read, but for what other requests
\* have done to it.
C25_NoSideEffects == [][C25_Step]_vars

\* A Sync has failed at the query of the tombstones, or a List at the query of
\* the history sequence, after its earlier queries ran, over a store with a
\* record and a tombstone of the user.
C25_Witness ==
    \E q \in Reqs :
        /\ ReadFailed(q)
        /\ \/ txs[q].op = "Sync" /\ txs[q].at = "deleted"
           \/ txs[q].op = "List" /\ txs[q].at = "history"
        /\ RowsOf(txs[q]) # {}
        /\ TombsOf(txs[q]) # {}

\* ------------------------------------------------------------ C27
\* The records and the tombstones of the reading user at the instant the read
\* of x saw the store.
RowsAt(x) == {r \in x.snap.rows : r.userId = x.user}

TombsAt(x) == {d \in x.snap.deleted : d.userId = x.user}

\* Everything the finished read x returns: records and tombstones.
ReturnedBy(x) ==
    IF x.op = "Sync"
    THEN Range(x.res.inserted) \cup Range(x.res.updated) \cup Range(x.res.trashed)
           \cup Range(x.res.deleted)
    ELSE Range(x.res.items)

\* No record is in two buckets of the Sync result.
OneBucket(res) ==
    /\ IdsIn(res.inserted) \cap IdsIn(res.updated) = {}
    /\ IdsIn(res.inserted) \cap IdsIn(res.trashed) = {}
    /\ IdsIn(res.updated) \cap IdsIn(res.trashed) = {}

\* The result of the finished read x is that of the one instant x.snap.
OneInstant(x) ==
    /\ x.res.history = x.snap.seq
    /\ \A r \in ReturnedBy(x) : r.historyId <= x.res.history
    /\ IF x.op = "Sync"
       THEN /\ Lists(x.res.inserted, {r \in RowsAt(x) : r.lastStmt = 0 /\ InWindow(r, x)})
            /\ Lists(x.res.updated, {r \in RowsAt(x) : r.lastStmt = 1 /\ InWindow(r, x)})
            /\ Lists(x.res.trashed, {r \in RowsAt(x) : r.lastStmt = 2 /\ InWindow(r, x)})
            /\ Lists(x.res.deleted, {d \in TombsAt(x) : InWindow(d, x)})
            /\ OneBucket(x.res)
       ELSE Lists(x.res.items, {r \in RowsAt(x) : r.lastStmt < 2})

\* C27: whatever mutations of the same user are served between the queries of
\* a List or Sync, the result is that of one instant of the store, the one of
\* its first query: the high-water-mark is the sequence value of that instant,
\* no returned record or tombstone has a history id above it, every record
\* and tombstone that qualified at that instant is returned once, in the
\* bucket of the lastStmt it had then, and no record is in two buckets.
C27_OneInstant == \A q \in Reqs : ReadDone(q) => OneInstant(txs[q])

\* A Sync has finished while the store changed between its queries: a record
\* it returns as inserted has been updated or trashed since, and the history
\* sequence is past the high-water-mark it returns.
C27_Witness ==
    \E q \in Reqs :
        /\ ReadDone(q)
        /\ txs[q].op = "Sync"
        /\ txs[q].moved
        /\ \E r \in Range(txs[q].res.inserted) :
              \E c \in RowsOf(txs[q]) : c.id = r.id /\ c.lastStmt # 0
        /\ seq[txs[q].type][txs[q].user] > txs[q].res.history

\* ------------------------------------------------------------ C31
\* Of any two consecutive records of the list the earlier one was created no
\* earlier than the later one.
CreatedAtDescending(s) ==
    \A i \in DOMAIN s : i + 1 \in DOMAIN s => s[i].createdAt >= s[i + 1].createdAt

\* C31: the inserted, the updated and the trashed bucket of every Sync, and
\* the records of a Contact List and of a Draft List, are ordered by createdAt
\* descending; nothing is said of the order of a Blob List.
C31_Ordered ==
    /\ resp.op = "Sync" =>
          /\ CreatedAtDescending(resp.inserted)
          /\ CreatedAtDescending(resp.updated)
          /\ CreatedAtDescending(resp.trashed)
    /\ resp.op = "List" /\ resp.type \in {"Contact", "Draft"} =>
          CreatedAtDescending(resp.items)

\* A Contact List of two records created at different times.
C31_Witness ==
    /\ resp.op = "List"
    /\ resp.type = "Contact"
    /\ Len(resp.items) = 2
    /\ resp.items[1].createdAt > resp.items[2].createdAt

\* ------------------------------------------------------------ C36
\* y is x with, at most, another lastStmt, deviceId and historyId.
SameButStmt(x, y) ==
    y = [x EXCEPT !.lastStmt = y.lastStmt, !.deviceId = y.deviceId,
                  !.historyId = y.historyId]

\* A Trash or an Untrash is served in this step: each record it names keeps
\* its id, userId, createdAt, modifiedAt and domain fields, gets the lastStmt
\* of the call and a history id above its own and above the sequence before the
\* call; every other record, of this and of every other type, and every
\* tombstone is as before, and no record appears.
C36_Step ==
    (resp = NoResp /\ resp'.op \in {"Trash", "Untrash"}) =>
        LET r == resp'
            t == r.type
        IN  /\ \A x \in Existing(r) :
                  \E y \in rows'[t] :
                      /\ SameButStmt(x, y)
                      /\ y.lastStmt = (IF r.op = "Trash" THEN 2 ELSE 0)
                      /\ y.historyId > x.historyId
                      /\ y.historyId > seq[t][r.user]
            /\ \A x \in rows[t] \ Existing(r) : x \in rows'[t]
            /\ {y.id : y \in rows'[t]} = {x.id : x \in rows[t]}
            /\ \A o \in Types \ {t} : rows'[o] = rows[o]
            /\ deleted' = deleted

\* The last two mutations of the record are a Trash and then an Untrash.
TrashedThenUntrashed(t, u, id) ==
    \E i, j \in StampsOf(t, u, id) :
        /\ i < j
        /\ hlog[t][u][i].op = "Trash"
        /\ hlog[t][u][j].op = "Untrash"
        /\ \A k \in StampsOf(t, u, id) : k <= i \/ k = j

\* A List returns every record that was trashed and then untrashed, with
\* lastStmt 0.
C36_Restored ==
    resp.op = "List" =>
        \A x \in RowsOf(resp) :
            TrashedThenUntrashed(resp.type, resp.user, x.id) =>
                x.lastStmt = 0 /\ x \in Range(resp.items)

\* C36: Trash followed by Untrash of a live record makes it live again: List
\* returns it with lastStmt 0 and with the id, userId, createdAt and domain
\* field values it had; Trash and Untrash change only lastStmt, deviceId and
\* historyId of the records they name, leave every other record as it is, and
\* each gives the record a new, larger historyId.
C36_TrashUntrash == []C36_Restored /\ [][C36_Step]_vars

\* A List returns a record that was created, trashed and then untrashed.
C36_Witness ==
    /\ resp.op = "List"
    /\ \E x \in Range(resp.items) :
          TrashedThenUntrashed(resp.type, resp.user, x.id)

\* ------------------------------------------------------------ C35
\* The keys of the records and tombstones of the four buckets of a Sync.
Keys(r) == <<IdsIn(r.inserted), IdsIn(r.updated), IdsIn(r.trashed), IdsIn(r.deleted)>>

\* No key is twice in the bucket.
NoRepeat(bucket) == Cardinality(IdsIn(bucket)) = Len(bucket)

\* C35: in one Sync result no id (uri of a blob) is in more than one of
\* inserted, updated, trashed and deleted, and none is twice in a bucket, also
\* when a blob was deleted and created again with the same uri after the
\* history id the Sync is called with.
C35_BucketsDisjoint ==
    resp.op = "Sync" =>
        /\ \A i, j \in 1..4 : i # j => Keys(resp)[i] \cap Keys(resp)[j] = {}
        /\ NoRepeat(resp.inserted)
        /\ NoRepeat(resp.updated)
        /\ NoRepeat(resp.trashed)
        /\ NoRepeat(resp.deleted)

\* ------------------------------------------------------------ C34
\* The device of request q has applied the result of a Sync in this step.
Synced(q) == txs[q].pc = "replica" /\ txs'[q].syncs # txs[q].syncs

\* What List returns of the type and user of the copy c: the records that are
\* not trashed, with their domain field values.
Listed(c) == {Local(r) : r \in {x \in rows[c.type] : x.userId = c.user /\ x.lastStmt < 2}}

C34_Step == \A q \in Reqs : Synced(q) => txs'[q].live = Listed(txs'[q])

\* C34: a device that fills its copy from List, applies its own mutations to
\* it and applies every Sync result, calling Sync with the high-water-mark it
\* was given last, holds after a Sync that no write follows exactly the records
\* List returns, with the same domain field values, whatever mutations two
\* devices have made in whatever order.
C34_Convergence == [][C34_Step]_vars

\* ------------------------------------------------------------ C38
\* The path ends in one '/': it is longer than one character, its last
\* character is '/' and the one before is not.
EndsInOneSlash(path) ==
    /\ Len(path) > 1
    /\ path[Len(path)] = "/"
    /\ path[Len(path) - 1] # "/"

\* The path begins with the whole of the other.
BeginsWith(path, other) ==
    Len(path) >= Len(other) /\ SubSeq(path, 1, Len(other)) = other

\* C38: Entry.Match returns true exactly when the methods are equal and the
\* request path either equals the entry path or begins with an entry path
\* that ends in one '/'; so the entry "/" matches the path "/" only, and an
\* entry without a trailing slash matches no longer path.
C38_Match ==
    resp.op = "ServeHTTP" =>
        \A i \in DOMAIN resp.matched :
            LET e == txs[1].routes[i]
            IN  /\ resp.matched[i] <=>
                      /\ resp.Method = e.Method
                      /\ \/ resp.Path = e.Path
                         \/ EndsInOneSlash(e.Path) /\ BeginsWith(resp.Path, e.Path)
                /\ (e.Path = <<"/">> /\ resp.matched[i]) => resp.Path = <<"/">>
                /\ (e.Path # <<>> /\ e.Path[Len(e.Path)] # "/" /\ resp.matched[i]) =>
                      resp.Path = e.Path

\* A request is matched by an entry whose path ends in one '/' and is shorter
\* than the request path, and not by the entry with the same path less the
\* slash.
C38_Witness ==
    /\ resp.op = "ServeHTTP"
    /\ Len(txs[1].routes) = 2
    /\ txs[1].routes[1].Path = <<"/", "a">>
    /\ txs[1].routes[2].Path = <<"/", "a", "/">>
    /\ resp.Path = <<"/", "a", "/", "a">>
    /\ ~resp.matched[1]
    /\ resp.matched[2]

\* ------------------------------------------------------------ C37
\* The entries that the request of the response matches, by the method and
\* the path alone.
Matching(r) == {i \in DOMAIN r.matched : r.matched[i]}

\* C37: Router.ServeHTTP invokes one handler, that of the first entry in the
\* order of registration that matches the request, whatever entries after it
\* match as well; when no entry matches it invokes none and answers 404.
C37_FirstMatch ==
    resp.op = "ServeHTTP" =>
        IF Matching(resp) = {}
        THEN resp.invoked = <<>> /\ resp.status = 404
        ELSE /\ Len(resp.invoked) = 1
             /\ resp.invoked[1] \in Matching(resp)
             /\ \A i \in Matching(resp) : resp.invoked[1] <= i
             /\ resp.status # 404

\* A request that two entries match is served by the handler of the first.
C37_Witness ==
    /\ resp.op = "ServeHTTP"
    /\ Matching(resp) = {1, 2}
    /\ resp.invoked = <<1>>

\* ------------------------------------------------------------ C32
\* The request whose handler has run.
Handled(h) == txs[2].pc = "done" /\ h \in Range(txs[2].ran)

\* C32: a handler that ran for a request whose context holds no user has
\* answered 500 with ErrMissingUserContext and has called the repository
\* neither to read nor to write, whatever the method of the request.
C32_MissingUser ==
    \A h \in UserHandlers :
        Handled(h) /\ txs[2].user = NoUser =>
            /\ txs[2].status = 500
            /\ txs[2].err = "ErrMissingUserContext"
            /\ txs[2].written
            /\ txs[2].calls = <<>>

\* The Profile handler has answered a PUT whose context holds no user.
C32_Witness ==
    /\ Handled("User.Profile")
    /\ txs[2].user = NoUser
    /\ txs[2].Method = "PUT"
    /\ txs[2].body = "json"
    /\ txs[2].status = 500

\* ------------------------------------------------------------ C33
\* The collections of the API behind authentication.
Guarded == {"contacts", "bodies", "files", "drafts", "messages", "user"}

\* The path lies under /api/v1/<name> for a guarded name.
UnderGuarded(path) ==
    /\ Len(path) >= 6
    /\ SubSeq(path, 1, 5) = Api(<<>>) \o <<"/">>
    /\ path[6] \in Guarded

\* The entry is registered with the Authenticate middleware of the API
\* around its handler.
Wrapped(e) == Len(e.Handler) = 2 /\ e.Handler[1] = "api.Authenticate"

\* The middleware ran before position i of what ran for the request.
AuthenticatedBefore(x, i) == \E j \in 1..(i - 1) : x.ran[j] = "api.Authenticate"

\* C33: every route under /api/v1/contacts, bodies, files, drafts, messages
\* and user is wrapped in Authenticate, and for any request the Router serves
\* on such a path the handler runs only after authentication has run.
C33_Authenticated ==
    /\ \A i \in DOMAIN txs[1].routes :
          UnderGuarded(txs[1].routes[i].Path) => Wrapped(txs[1].routes[i])
    /\ LET x == txs[2]
       IN  x.pc \in {"chain", "done"} /\ x.via = "router" /\ UnderGuarded(x.Path) =>
               \A i \in DOMAIN x.ran :
                   x.ran[i] \notin Middleware =>
                       AuthenticatedBefore(x, i)

\* A download below /api/v1/bodies/ has been served by its handler after the
\* middleware.
C33_Witness ==
    /\ txs[2].pc = "done"
    /\ txs[2].via = "router"
    /\ txs[2].Path = Api(<<"bodies">>) \o <<"/", "x">>
    /\ txs[2].ran = <<"api.Authenticate", "Bodies.Download">>

\* ------------------------------------------------------------ C39
\* The Router has served the request of an authenticated user on the profile
\* path with the given method.
ProfileServed(method) ==
    /\ txs[2].pc = "done"
    /\ txs[2].via = "router"
    /\ txs[2].cred = "valid"
    /\ txs[2].Path = Api(<<"user", "profile">>)
    /\ txs[2].Method = method

\* C39: a request of an authenticated user on /api/v1/user/profile is
\* processed by a branch of the Profile handler: a PUT with a profile in its
\* body reaches the handler and invokes UpdateProfile, and a PATCH or a GET,
\* the methods the route is registered for, leads to a repository call and a
\* written response.
C39_ProfileBranches ==
    /\ ProfileServed("PUT") /\ txs[2].body = "json" =>
          /\ "User.Profile" \in Range(txs[2].ran)
          /\ "UpdateProfile" \in Range(txs[2].calls)
    /\ \A method \in {"PATCH", "GET"} :
          ProfileServed(method) =>
              /\ "User.Profile" \in Range(txs[2].ran)
              /\ txs[2].calls # <<>>
              /\ txs[2].written


====
